---------------------------- MODULE Spec2Model ----------------------------
(***************************************************************************)
(* Model of the book integration pipeline (src/integrate_pipeline.py), of  *)
(* its ISBN utilities (src/utils_isbn.py) and of the quality functions it  *)
(* calls (src/utils_quality.py).                                           *)
(*                                                                         *)
(* Representation of Python values:                                        *)
(*   - a str is a sequence of one-character strings, "" is <<>>;           *)
(*   - in a text column, Python None is the one-token sequence None and a  *)
(*     float NaN is the one-token sequence NaN (neither is a str); a       *)
(*     number there is a tag, IntTag or FloatTag, followed by its digits;  *)
(*   - a number is the record [na |-> "", num |-> n, flt |-> f], f telling *)
(*     a float from an int; in a numeric column None and NaN are the       *)
(*     records NoneN and NaNN.  Ratings are held in tenths and prices in   *)
(*     cents, so that 4.5 is Float(45) and 45.0 is Float(4500); every      *)
(*     other float of the model is integral (2008.0 is Float(2008));       *)
(*   - a data frame is a sequence of rows, a row a record keyed by column  *)
(*     name; a column a row does not have is not in its DOMAIN.            *)
(***************************************************************************)
EXTENDS Integers, Sequences, FiniteSets, TLC

VARIABLES
    pc,          \* position of the run (of main(), or of a function harness)
    landing,     \* main(): the two input files, [goodreads, googlebooks]
    arg,         \* function harness: the argument the functions are called on
    ret,         \* function harness: the values the calls returned
    df_gr_raw,   \* main(): Goodreads records as read (leer_goodreads)
    df_gb_raw,   \* main(): Google Books records as read (leer_googlebooks)
    df_gr,       \* main(): df_gr_staging, then df_gr_norm
    df_gb,       \* main(): df_gb_staging, then df_gb_norm
    df_merged,   \* main(): result of consolidar_fuentes
    dim_book,    \* main(): result of deduplicar
    book_source_detail, \* main(): result of crear_source_detail
    quality_metrics,    \* main(): result of generar_quality_metrics
    written,     \* main(): the files written under standard/ and docs/ by this run
    failure      \* main(): the step whose exception reached the except clause

vars == <<pc, landing, arg, ret, df_gr_raw, df_gb_raw, df_gr, df_gb, df_merged, dim_book,
          book_source_detail, quality_metrics, written, failure>>

\* The state of the last steps of main() before they run
NoMetrics == [timestamp |-> <<"<None>">>]
NoOutputs ==
    /\ book_source_detail = <<>>
    /\ quality_metrics = NoMetrics
    /\ written = {}
    /\ failure = ""

----------------------------------------------------------------------------
(* Python values                                                           *)

None == <<"<None>">>
NaN == <<"<NaN>">>

PyInt(n) == [na |-> "", num |-> n, flt |-> FALSE]
Float(n) == [na |-> "", num |-> n, flt |-> TRUE]
NoneN == [na |-> "None", num |-> 0, flt |-> FALSE]
NaNN == [na |-> "NaN", num |-> 0, flt |-> TRUE]

\* pd.notna / pd.isna on a text value and on a numeric value
NotNa(v) == v # None /\ v # NaN
NumNotNa(v) == v.na = ""

\* A number in a column of text: the tag of its type, then its digits
IntTag == "<int>"
FloatTag == "<float>"
IsNumCell(v) == v # <<>> /\ Head(v) \in {IntTag, FloatTag}

\* str(v) of a cell of a column of text: 'None', 'nan', '1984' for the int
\* 1984, '1984.0' for the float 1984.0, the str itself
PyStr(v) ==
    IF v = None THEN <<"N", "o", "n", "e">>
    ELSE IF v = NaN THEN <<"n", "a", "n">>
    ELSE IF v = <<>> THEN v
    ELSE IF Head(v) = IntTag THEN Tail(v)
    ELSE IF Head(v) = FloatTag THEN Tail(v) \o <<".", "0">>
    ELSE v

\* Python truthiness of a cell: None, "" and zero are false, NaN (a non-zero
\* float) and every non-empty str are true
Truthy(v) == v # None /\ v # <<>> /\ v # <<IntTag, "0">> /\ v # <<FloatTag, "0">>

Digits == {"0", "1", "2", "3", "4", "5", "6", "7", "8", "9"}

\* int(c) of a one-character string that is a decimal digit
DigitVal(c) ==
    CASE c = "0" -> 0 [] c = "1" -> 1 [] c = "2" -> 2 [] c = "3" -> 3
      [] c = "4" -> 4 [] c = "5" -> 5 [] c = "6" -> 6 [] c = "7" -> 7
      [] c = "8" -> 8 [] c = "9" -> 9

\* str(d) of an integer 0..9
DigitChar(d) ==
    CASE d = 0 -> "0" [] d = 1 -> "1" [] d = 2 -> "2" [] d = 3 -> "3"
      [] d = 4 -> "4" [] d = 5 -> "5" [] d = 6 -> "6" [] d = 7 -> "7"
      [] d = 8 -> "8" [] d = 9 -> "9"

LowerLetters == {"a", "b", "c", "d", "e", "f", "g", "h", "i", "j", "k", "l", "m",
                 "n", "o", "p", "q", "r", "s", "t", "u", "v", "w", "x", "y", "z"}
UpperLetters == {"A", "B", "C", "D", "E", "F", "G", "H", "I", "J", "K", "L", "M",
                 "N", "O", "P", "Q", "R", "S", "T", "U", "V", "W", "X", "Y", "Z"}

UpperOf == [c \in LowerLetters |->
    CASE c = "a" -> "A" [] c = "b" -> "B" [] c = "c" -> "C" [] c = "d" -> "D"
      [] c = "e" -> "E" [] c = "f" -> "F" [] c = "g" -> "G" [] c = "h" -> "H"
      [] c = "i" -> "I" [] c = "j" -> "J" [] c = "k" -> "K" [] c = "l" -> "L"
      [] c = "m" -> "M" [] c = "n" -> "N" [] c = "o" -> "O" [] c = "p" -> "P"
      [] c = "q" -> "Q" [] c = "r" -> "R" [] c = "s" -> "S" [] c = "t" -> "T"
      [] c = "u" -> "U" [] c = "v" -> "V" [] c = "w" -> "W" [] c = "x" -> "X"
      [] c = "y" -> "Y" [] c = "z" -> "Z"]

LowerOf == [c \in UpperLetters |-> CHOOSE l \in LowerLetters : UpperOf[l] = c]

\* str.upper() and str.lower(), character by character
UpperChar(c) == IF c \in LowerLetters THEN UpperOf[c] ELSE c
LowerChar(c) == IF c \in UpperLetters THEN LowerOf[c] ELSE c
Upper(s) == [i \in 1..Len(s) |-> UpperChar(s[i])]
Lower(s) == [i \in 1..Len(s) |-> LowerChar(s[i])]

IsSpace(c) == c = " "
IsAlnum(c) == c \in Digits \/ c \in LowerLetters \/ c \in UpperLetters

RECURSIVE LStrip(_)
LStrip(s) == IF s # <<>> /\ IsSpace(Head(s)) THEN LStrip(Tail(s)) ELSE s

RECURSIVE RStrip(_)
RStrip(s) ==
    IF s # <<>> /\ IsSpace(s[Len(s)]) THEN RStrip(SubSeq(s, 1, Len(s) - 1)) ELSE s

\* str.strip()
Strip(s) == RStrip(LStrip(s))

\* str.isdigit() of a non-empty str
IsDigitStr(s) == s # <<>> /\ \A i \in 1..Len(s) : s[i] \in Digits

\* Column c of frame df
Column(df, c) == [i \in 1..Len(df) |-> df[i][c]]

\* row without column c
DropColumn(row, c) == [k \in DOMAIN row \ {c} |-> row[k]]

\* s[:n]
Take(s, n) == SubSeq(s, 1, IF n < Len(s) THEN n ELSE Len(s))

----------------------------------------------------------------------------
(* src/utils_isbn.py                                                       *)

\* re.sub(r'[^0-9Xx]', '', s)
RECURSIVE KeepIsbnChars(_)
KeepIsbnChars(s) ==
    IF s = <<>> THEN <<>>
    ELSE IF Head(s) \in Digits \cup {"X", "x"}
         THEN <<Head(s)>> \o KeepIsbnChars(Tail(s))
         ELSE KeepIsbnChars(Tail(s))

clean_isbn(isbn) ==
    IF ~NotNa(isbn) THEN None
    ELSE LET s == Strip(PyStr(isbn)) IN
         IF s = <<>> THEN None
         ELSE LET t == Upper(KeepIsbnChars(s)) IN
              IF t = <<>> THEN None ELSE t

\* int(isbn[i]) raises ValueError when the character is not a digit
IntRaises(s, n) == \E i \in 1..n : s[i] \notin Digits

\* sum of int(isbn[i]) * (10 - i) for i in range(n); s[i + 1] is Python's isbn[i]
RECURSIVE WeightedSum10(_, _)
WeightedSum10(s, n) ==
    IF n = 0 THEN 0
    ELSE DigitVal(s[n]) * (10 - (n - 1)) + WeightedSum10(s, n - 1)

\* Checksum total of validate_isbn10
Isbn10Total(s) ==
    LET last == IF s[10] = "X" THEN 10 ELSE DigitVal(s[10])
    IN  WeightedSum10(s, 9) + last

\* A validation that gives X the value 10 wherever it stands
validate_isbn10_XAnywhere(isbn) ==
    IF ~Truthy(isbn) THEN FALSE
    ELSE LET s == clean_isbn(isbn)
             val(ch) == IF ch = "X" THEN 10 ELSE DigitVal(ch)
         IN  IF ~Truthy(s) \/ Len(s) # 10 THEN FALSE
             ELSE (val(s[1]) * 10 + val(s[2]) * 9 + val(s[3]) * 8 + val(s[4]) * 7
                   + val(s[5]) * 6 + val(s[6]) * 5 + val(s[7]) * 4 + val(s[8]) * 3
                   + val(s[9]) * 2 + val(s[10])) % 11 = 0

validate_isbn10(isbn) ==
    IF ~Truthy(isbn) THEN FALSE
    ELSE LET s == clean_isbn(isbn) IN
         IF ~Truthy(s) \/ Len(s) # 10 THEN FALSE
         ELSE IF IntRaises(s, 9) \/ (s[10] # "X" /\ s[10] \notin Digits) THEN FALSE
         ELSE Isbn10Total(s) % 11 = 0

\* sum(digits[i] if i % 2 == 0 else digits[i] * 3 for i in range(n))
RECURSIVE WeightedSum13(_, _)
WeightedSum13(s, n) ==
    IF n = 0 THEN 0
    ELSE (IF (n - 1) % 2 = 0 THEN DigitVal(s[n]) ELSE DigitVal(s[n]) * 3)
         + WeightedSum13(s, n - 1)

\* check_digit = (10 - (checksum % 10)) % 10 over the first 12 digits
Isbn13CheckDigit(s) == (10 - (WeightedSum13(s, 12) % 10)) % 10

validate_isbn13(isbn) ==
    IF ~Truthy(isbn) THEN FALSE
    ELSE LET s == clean_isbn(isbn) IN
         IF ~Truthy(s) \/ Len(s) # 13 THEN FALSE
         ELSE IF IntRaises(s, 13) THEN FALSE
         ELSE Isbn13CheckDigit(s) = DigitVal(s[13])

\* A conversion that keeps the ISBN-10 check digit instead of
\* recomputing the ISBN-13 one
isbn10_to_isbn13_KeepCheckDigit(isbn10) ==
    IF ~validate_isbn10(isbn10) THEN None
    ELSE <<"9", "7", "8">> \o Take(clean_isbn(isbn10), 10)

isbn10_to_isbn13(isbn10) ==
    IF ~validate_isbn10(isbn10) THEN None
    ELSE LET isbn13_base == <<"9", "7", "8">> \o Take(clean_isbn(isbn10), 9)
         IN  isbn13_base \o <<DigitChar(Isbn13CheckDigit(isbn13_base))>>

\* normalize_isbn(isbn)['isbn']: the cleaned value whatever its length
normalize_isbn(isbn) ==
    LET cleaned == clean_isbn(isbn) IN
    IF ~Truthy(cleaned) THEN [isbn |-> None, valid |-> FALSE, type |-> "None"]
    ELSE IF Len(cleaned) = 10
         THEN [isbn |-> cleaned, valid |-> validate_isbn10(cleaned), type |-> "isbn10"]
    ELSE IF Len(cleaned) = 13
         THEN [isbn |-> cleaned, valid |-> validate_isbn13(cleaned), type |-> "isbn13"]
    ELSE [isbn |-> cleaned, valid |-> FALSE, type |-> "None"]

----------------------------------------------------------------------------
(* pandas: dtype of a numeric column                                       *)

\* A column of numbers and nulls becomes float64: every null is NaN and every
\* int a float.  A column with no null keeps its ints, and a column of nothing
\* but None stays an object column of None.  (pd.DataFrame(list of dicts),
\* Series.apply and pd.read_csv all infer a column's dtype this way.)
InferNum(col) ==
    IF \A i \in 1..Len(col) : col[i] = NoneN THEN col
    ELSE IF \E i \in 1..Len(col) : ~NumNotNa(col[i])
         THEN [i \in 1..Len(col) |->
                  IF NumNotNa(col[i]) THEN Float(col[i].num) ELSE NaNN]
         ELSE col

\* int(s) of a str of decimal digits
RECURSIVE StrToInt(_)
StrToInt(s) ==
    IF s = <<>> THEN 0
    ELSE StrToInt(SubSeq(s, 1, Len(s) - 1)) * 10 + DigitVal(s[Len(s)])

\* str(n) of an int n >= 0
RECURSIVE IntToStr(_)
IntToStr(n) ==
    IF n < 10 THEN <<DigitChar(n)>>
    ELSE IntToStr(n \div 10) \o <<DigitChar(n % 10)>>

\* str(v) of a numeric cell: 'None', 'nan', '2008' or '2008.0'
PyStrNum(v) ==
    IF v.na = "None" THEN <<"N", "o", "n", "e">>
    ELSE IF v.na = "NaN" THEN <<"n", "a", "n">>
    ELSE IF v.flt THEN IntToStr(v.num) \o <<".", "0">>
    ELSE IntToStr(v.num)

----------------------------------------------------------------------------
(* src/integrate_pipeline.py, 1. LECTURA and 2. STAGING                     *)

NumericRawGr == {"rating", "ratings_count", "published_year"}
NumericRawGb == {"page_count", "price_amount"}
TextRawGb ==
    {"title", "subtitle", "authors", "publisher", "published_date", "language",
     "categories", "isbn10", "isbn13", "price_currency"}

\* int(s) drops the leading zeros of the field
RECURSIVE StripZeros(_)
StripZeros(s) == IF Len(s) > 1 /\ Head(s) = "0" THEN StripZeros(Tail(s)) ELSE s

\* pd.read_csv gives no dtype, so a column of the file whose every non-empty
\* field is a number is read as numbers: int64 when no field is empty, float64
\* with NaN otherwise.  Any other field in the column keeps it a column of str.
\* (The numbers written here are the fields of digits alone.)
InferText(col) ==
    LET present == {i \in 1..Len(col) : NotNa(col[i])} IN
    IF present = {} \/ \E i \in present : ~IsDigitStr(col[i]) THEN col
    ELSE IF present = 1..Len(col)
         THEN [i \in 1..Len(col) |-> <<IntTag>> \o StripZeros(col[i])]
         ELSE [i \in 1..Len(col) |->
                  IF i \in present THEN <<FloatTag>> \o StripZeros(col[i]) ELSE NaN]

\* The frame df with the dtype of its columns inferred
InferColumns(df, numeric, text) ==
    [i \in 1..Len(df) |->
        [c \in DOMAIN df[i] |->
            IF c \in numeric THEN InferNum(Column(df, c))[i]
            ELSE IF c \in text THEN InferText(Column(df, c))[i]
            ELSE df[i][c]]]

\* A reader that takes every file for present
leer_raises_Never(file, absent) == FALSE

\* open(filepath) and pd.read_csv(filepath) raise on a file that does not exist
leer_raises(file, absent) == file \in absent

\* pd.DataFrame(data['books']): the str of the JSON stay str
leer_goodreads(books) == InferColumns(books, NumericRawGr, {})

\* pd.read_csv(filepath)
leer_googlebooks(lines) == InferColumns(lines, NumericRawGb, TextRawGb)

\* The columns read with df_gr[...] and df_gb[...]: a frame without one of them
\* raises KeyError.  A list of books that is empty gives a frame without columns.
GrRequired == {"row_number", "title", "author", "rating", "ratings_count"}
GbRequired ==
    {"row_number", "title", "subtitle", "authors", "publisher", "published_date",
     "language", "page_count", "categories", "isbn10", "isbn13", "price_amount",
     "price_currency"}

mapear_goodreads_raises(df) == df = <<>> \/ ~(GrRequired \subseteq DOMAIN df[1])
mapear_googlebooks_raises(df) == df # <<>> /\ ~(GbRequired \subseteq DOMAIN df[1])

\* df_gr.get(c): the column, or None when the frame has no such column
DfGet(row, c, null) == IF c \in DOMAIN row THEN row[c] ELSE null

mapear_goodreads(df) ==
    [i \in 1..Len(df) |->
        [source_name |-> <<"goodreads">>,
         source_row_number |-> df[i].row_number,
         titulo |-> df[i].title,
         autor |-> df[i].author,
         rating |-> df[i].rating,
         ratings_count |-> df[i].ratings_count,
         anio_publicacion |-> DfGet(df[i], "published_year", NoneN),
         isbn10 |-> DfGet(df[i], "isbn10", None),
         isbn13 |-> DfGet(df[i], "isbn13", None),
         book_url |-> DfGet(df[i], "book_url", None),
         editorial |-> None,
         idioma |-> None,
         paginas |-> NoneN,
         categorias |-> None,
         precio |-> NoneN,
         moneda |-> None,
         subtitulo |-> None,
         autores_lista |-> None]]

\* int(str(date_str)[:4]), None when int() raises
extraer_anio(date_str) ==
    IF ~NotNa(date_str) THEN NoneN
    ELSE LET t == Strip(Take(PyStr(date_str), 4)) IN
         IF IsDigitStr(t) THEN PyInt(StrToInt(t)) ELSE NoneN

\* s.split('|')[0]
RECURSIVE UpToBar(_)
UpToBar(s) ==
    IF s = <<>> \/ Head(s) = "|" THEN <<>> ELSE <<Head(s)>> \o UpToBar(Tail(s))

extraer_primer_autor(authors_str) ==
    IF ~NotNa(authors_str) THEN None ELSE Strip(UpToBar(PyStr(authors_str)))

mapear_googlebooks(df) ==
    LET anio == InferNum([i \in 1..Len(df) |-> extraer_anio(df[i].published_date)])
    IN  [i \in 1..Len(df) |->
        [source_name |-> <<"googlebooks">>,
         source_row_number |-> df[i].row_number,
         titulo |-> df[i].title,
         subtitulo |-> df[i].subtitle,
         autor |-> extraer_primer_autor(df[i].authors),
         autores_lista |-> df[i].authors,
         editorial |-> df[i].publisher,
         anio_publicacion |-> anio[i],
         fecha_publicacion |-> df[i].published_date,
         idioma |-> df[i].language,
         paginas |-> df[i].page_count,
         categorias |-> df[i].categories,
         isbn10 |-> df[i].isbn10,
         isbn13 |-> df[i].isbn13,
         precio |-> df[i].price_amount,
         moneda |-> df[i].price_currency,
         rating |-> NoneN,
         ratings_count |-> NoneN,
         book_url |-> None]]

----------------------------------------------------------------------------
(* src/integrate_pipeline.py, 3. NORMALIZACION                              *)

\* Characters with a diacritic, written as one token each, and the combining
\* mark (Unicode category Mn) that NFD splits off
Accented == {"a_acute", "e_acute", "i_acute", "o_acute", "u_acute"}
BaseOf(c) ==
    CASE c = "a_acute" -> "a" [] c = "e_acute" -> "e" [] c = "i_acute" -> "i"
      [] c = "o_acute" -> "o" [] c = "u_acute" -> "u"
IsMn(c) == c = "acute_mark"

\* unicodedata.normalize('NFD', s)
RECURSIVE NFD(_)
NFD(s) ==
    IF s = <<>> THEN <<>>
    ELSE (IF Head(s) \in Accented THEN <<BaseOf(Head(s)), "acute_mark">> ELSE <<Head(s)>>)
         \o NFD(Tail(s))

\* ''.join(c for c in s if unicodedata.category(c) != 'Mn')
RECURSIVE DropMn(_)
DropMn(s) ==
    IF s = <<>> THEN <<>>
    ELSE (IF IsMn(Head(s)) THEN <<>> ELSE <<Head(s)>>) \o DropMn(Tail(s))

\* ''.join(c if c.isalnum() or c.isspace() else ' ' for c in s)
PunctToSpace(s) ==
    [i \in 1..Len(s) |-> IF IsAlnum(s[i]) \/ IsSpace(s[i]) THEN s[i] ELSE " "]

\* ' '.join(s.split())
RECURSIVE JoinSplit(_)
JoinSplit(s) ==
    LET t == LStrip(s) IN
    IF t = <<>> THEN <<>>
    ELSE IF Len(t) >= 2 /\ IsSpace(t[2]) /\ LStrip(Tail(t)) # <<>>
         THEN <<Head(t), " ">> \o JoinSplit(Tail(t))
         ELSE IF Len(t) >= 2 /\ IsSpace(t[2])
              THEN <<Head(t)>>
              ELSE <<Head(t)>> \o JoinSplit(Tail(t))

normalizar_titulo(titulo) ==
    IF ~NotNa(titulo) THEN None
    ELSE JoinSplit(PunctToSpace(Lower(DropMn(NFD(PyStr(titulo))))))

normalizar_autor(autor) ==
    IF ~NotNa(autor) THEN None
    ELSE Strip(Lower(DropMn(NFD(PyStr(autor)))))

normalizar_fecha(fecha) ==
    IF ~NotNa(fecha) THEN None
    ELSE LET fecha_str == Strip(PyStr(fecha)) IN
         IF Len(fecha_str) = 10 /\ fecha_str[5] = "-" /\ fecha_str[8] = "-"
         THEN fecha_str
         ELSE IF Len(fecha_str) = 7 /\ fecha_str[5] = "-"
         THEN fecha_str \o <<"-", "0", "1">>
         ELSE IF Len(fecha_str) = 4 /\ IsDigitStr(fecha_str)
         THEN fecha_str \o <<"-", "0", "1", "-", "0", "1">>
         ELSE None

normalizar_idioma(idioma) ==
    IF ~NotNa(idioma) THEN None ELSE Strip(Lower(PyStr(idioma)))

\* A currency normalizer that strips without upper-casing
normalizar_moneda_AsIs(moneda) ==
    IF ~NotNa(moneda) THEN None ELSE Strip(PyStr(moneda))

normalizar_moneda(moneda) ==
    IF ~NotNa(moneda) THEN None ELSE Strip(Upper(PyStr(moneda)))

\* lambda x: normalize_isbn(x)['isbn'] if pd.notna(x) else None
NormIsbnCell(x) == IF NotNa(x) THEN normalize_isbn(x).isbn ELSE None

\* normalizar_df on one row: a column is normalized only if the row has it
normalizar_row(row) ==
    LET r1 == IF "fecha_publicacion" \in DOMAIN row
              THEN [row EXCEPT !.fecha_publicacion = normalizar_fecha(@)]
              ELSE row
        r2 == IF "idioma" \in DOMAIN r1
              THEN [r1 EXCEPT !.idioma = normalizar_idioma(@)]
              ELSE r1
        r3 == IF "moneda" \in DOMAIN r2
              THEN [r2 EXCEPT !.moneda = normalizar_moneda(@)]
              ELSE r2
    IN  [titulo_normalizado |-> normalizar_titulo(row.titulo),
         autor_normalizado |-> normalizar_autor(row.autor)]
        @@ [r3 EXCEPT !.isbn10 = NormIsbnCell(@), !.isbn13 = NormIsbnCell(@)]

normalizar_df(df) == [i \in 1..Len(df) |-> normalizar_row(df[i])]

----------------------------------------------------------------------------
(* src/integrate_pipeline.py, 4. GENERAR book_id CANONICO                   *)

\* All the characters of the model in ASCII order, then the non-ASCII ones
Charset ==
    <<" ", "+", "-", ".", "0", "1", "2", "3", "4", "5", "6", "7", "8", "9", ":",
      "A", "B", "C", "D", "E", "F", "G", "H", "I", "J", "K", "L", "M",
      "N", "O", "P", "Q", "R", "S", "T", "U", "V", "W", "X", "Y", "Z", "_",
      "a", "b", "c", "d", "e", "f", "g", "h", "i", "j", "k", "l", "m",
      "n", "o", "p", "q", "r", "s", "t", "u", "v", "w", "x", "y", "z", "|",
      "a_acute", "e_acute", "i_acute", "o_acute", "u_acute", "acute_mark">>

CharCode == [c \in {Charset[i] : i \in 1..Len(Charset)} |->
                CHOOSE i \in 1..Len(Charset) : Charset[i] = c]

HexChars == <<"0", "1", "2", "3", "4", "5", "6", "7", "8", "9",
              "a", "b", "c", "d", "e", "f">>

\* Four hex digits of h, 0 <= h < 65536
Hex4(h) ==
    <<HexChars[(h \div 4096) + 1], HexChars[((h \div 256) % 16) + 1],
      HexChars[((h \div 16) % 16) + 1], HexChars[(h % 16) + 1]>>

RECURSIVE DigestLane(_, _, _)
DigestLane(s, m, h) ==
    IF s = <<>> THEN h
    ELSE DigestLane(Tail(s), m, (h * m + CharCode[Head(s)]) % 65536)

\* hashlib.md5(key.encode('utf-8')).hexdigest(): 32 lower-case hex digits that
\* depend on every character of key.  MD5 itself is not computed: a polynomial
\* digest with the same shape stands for it.
md5_hexdigest(key) ==
    Hex4(DigestLane(key, 31, 7)) \o Hex4(DigestLane(key, 37, 11))
    \o Hex4(DigestLane(key, 41, 13)) \o Hex4(DigestLane(key, 43, 17))
    \o Hex4(DigestLane(key, 47, 19)) \o Hex4(DigestLane(key, 53, 23))
    \o Hex4(DigestLane(key, 59, 29)) \o Hex4(DigestLane(key, 61, 31))

\* row.get(c, '') or '' for a text column, as the f-string then renders it:
\* None and '' give '', NaN (truthy) gives 'nan'
KeyText(row, c) ==
    LET v == IF c \in DOMAIN row THEN row[c] ELSE <<>> IN
    IF ~Truthy(v) THEN <<>> ELSE PyStr(v)

\* str(row.get('anio_publicacion', '')) or ''
KeyYear(row) ==
    LET v == IF "anio_publicacion" \in DOMAIN row
             THEN PyStrNum(row.anio_publicacion) ELSE <<>> IN
    IF v # <<>> THEN v ELSE <<>>

\* key = f"{titulo}|{autor}|{editorial}|{anio}"
KeyMaterial(row) ==
    KeyText(row, "titulo_normalizado") \o <<"|">>
    \o KeyText(row, "autor_normalizado") \o <<"|">>
    \o KeyText(row, "editorial") \o <<"|">>
    \o KeyYear(row)

HashPrefix == <<"h", "a", "s", "h", "_">>

\* A generator that tries the ISBN-10 conversion before the ISBN-13
generar_book_id_Isbn10First(row) ==
    IF NotNa(row.isbn10) /\ Truthy(isbn10_to_isbn13(row.isbn10))
    THEN isbn10_to_isbn13(row.isbn10)
    ELSE IF NotNa(row.isbn13) /\ validate_isbn13(row.isbn13) THEN row.isbn13
    ELSE HashPrefix \o Take(md5_hexdigest(KeyMaterial(row)), 16)

\* A generator that returns a non-null isbn13 without validating it
generar_book_id_NoValidate(row) ==
    IF NotNa(row.isbn13) THEN row.isbn13
    ELSE IF NotNa(row.isbn10) /\ Truthy(isbn10_to_isbn13(row.isbn10))
         THEN isbn10_to_isbn13(row.isbn10)
    ELSE HashPrefix \o Take(md5_hexdigest(KeyMaterial(row)), 16)

\* A generator that returns the isbn10 as it stands instead of converting it
generar_book_id_Isbn10Verbatim(row) ==
    IF NotNa(row.isbn13) /\ validate_isbn13(row.isbn13) THEN row.isbn13
    ELSE IF NotNa(row.isbn10) /\ Truthy(isbn10_to_isbn13(row.isbn10))
         THEN row.isbn10
    ELSE HashPrefix \o Take(md5_hexdigest(KeyMaterial(row)), 16)

\* A key that is the hash of the text fields for every row, ISBN or not
generar_book_id_HashOnly(row) ==
    HashPrefix \o Take(md5_hexdigest(KeyMaterial(row)), 16)

generar_book_id(row) ==
    IF NotNa(row.isbn13) /\ validate_isbn13(row.isbn13) THEN row.isbn13
    ELSE IF NotNa(row.isbn10) /\ Truthy(isbn10_to_isbn13(row.isbn10))
         THEN isbn10_to_isbn13(row.isbn10)
    ELSE HashPrefix \o Take(md5_hexdigest(KeyMaterial(row)), 16)

agregar_book_id(df) ==
    [i \in 1..Len(df) |-> [book_id |-> generar_book_id(df[i])] @@ df[i]]

----------------------------------------------------------------------------
(* src/integrate_pipeline.py, 5. CONSOLIDAR FUENTES                         *)

\* Columns of df_gr_norm and of df_gb_norm when consolidar_fuentes is called
GrColumns ==
    {"source_name", "source_row_number", "titulo", "autor", "rating",
     "ratings_count", "anio_publicacion", "isbn10", "isbn13", "book_url",
     "editorial", "idioma", "paginas", "categorias", "precio", "moneda",
     "subtitulo", "autores_lista", "titulo_normalizado", "autor_normalizado",
     "book_id"}
GbColumns == GrColumns \cup {"fecha_publicacion"}

NumericColumns ==
    {"source_row_number", "rating", "ratings_count", "anio_publicacion",
     "paginas", "precio"}

\* pd.merge(..., on='book_id', suffixes=('_gr', '_gb')): a column of both frames
\* other than the key gets the suffixes, a column of one frame keeps its name
SuffixedColumns == (GrColumns \cap GbColumns) \ {"book_id"}
MergedColumns ==
    {"book_id"}
    \cup {c \o "_gr" : c \in SuffixedColumns}
    \cup {c \o "_gb" : c \in SuffixedColumns}
    \cup ((GrColumns \ GbColumns) \cup (GbColumns \ GrColumns))

\* A join that fills the side a key does not have with zeros and empty strings
NullSide_Defaults(cols) ==
    [c \in cols \ {"book_id"} |-> IF c \in NumericColumns THEN PyInt(0) ELSE <<>>]

\* The columns of one side on a merged row whose key that side does not have
NullSide(cols) ==
    [c \in cols \ {"book_id"} |-> IF c \in NumericColumns THEN NaNN ELSE NaN]

\* pd.notna of the cell of column c of a row
CellNotNa(row, c) == IF c \in NumericColumns THEN NumNotNa(row[c]) ELSE NotNa(row[c])

\* The indices of the rows of df whose key is k, in row order
RowsOfKey(df, k) == SelectSeq([i \in 1..Len(df) |-> i], LAMBDA i : df[i].book_id = k)

\* a < b for two str, character by character (Python's order of str)
RECURSIVE StrLess(_, _)
StrLess(a, b) ==
    IF b = <<>> THEN FALSE
    ELSE IF a = <<>> THEN TRUE
    ELSE IF Head(a) = Head(b) THEN StrLess(Tail(a), Tail(b))
    ELSE CharCode[Head(a)] < CharCode[Head(b)]

\* sorted(keys)
RECURSIVE SortedKeys(_)
SortedKeys(keys) ==
    IF keys = {} THEN <<>>
    ELSE LET m == CHOOSE k \in keys : \A o \in keys \ {k} : StrLess(k, o)
         IN  <<m>> \o SortedKeys(keys \ {m})

FrameKeys(df) == {df[i].book_id : i \in 1..Len(df)}

\* The rows of the outer join for key k: every pair of a left and a right row
\* with that key, left row first; a side without the key is all null
JoinKey(left, right, k) ==
    LET ls == RowsOfKey(left, k)
        rs == RowsOfKey(right, k)
        side(df, i) == DropColumn(df[i], "book_id")
    IN  IF rs = <<>>
        THEN [n \in 1..Len(ls) |->
                [book_id |-> k, gr |-> side(left, ls[n]), gb |-> NullSide(GbColumns)]]
        ELSE IF ls = <<>>
        THEN [n \in 1..Len(rs) |->
                [book_id |-> k, gr |-> NullSide(GrColumns), gb |-> side(right, rs[n])]]
        ELSE [n \in 1..(Len(ls) * Len(rs)) |->
                [book_id |-> k,
                 gr |-> side(left, ls[((n - 1) \div Len(rs)) + 1]),
                 gb |-> side(right, rs[((n - 1) % Len(rs)) + 1])]]

RECURSIVE JoinKeys(_, _, _)
JoinKeys(left, right, keys) ==
    IF keys = <<>> THEN <<>>
    ELSE JoinKey(left, right, Head(keys)) \o JoinKeys(left, right, Tail(keys))

\* An int64 column that the join filled with NaN becomes float64: the cell v of
\* column c of side sd
UpcastCell(joined, sd, c, v) ==
    IF c \in NumericColumns
    THEN IF NumNotNa(v) /\ \E i \in 1..Len(joined) : joined[i][sd][c] = NaNN
         THEN Float(v.num) ELSE v
    ELSE IF v # <<>> /\ Head(v) = IntTag
            /\ \E i \in 1..Len(joined) : joined[i][sd][c] = NaN
         THEN <<FloatTag>> \o Tail(v) ELSE v

UpcastSide(joined, sd, i) ==
    [c \in DOMAIN joined[i][sd] |-> UpcastCell(joined, sd, c, joined[i][sd][c])]

\* A merge with how='left': the keys of the right frame alone are dropped
consolidar_fuentes_Left(left, right) ==
    JoinKeys(left, right, SortedKeys(FrameKeys(left)))

\* A merge with how='inner': only the keys of both frames are kept
consolidar_fuentes_Inner(left, right) ==
    JoinKeys(left, right, SortedKeys(FrameKeys(left) \cap FrameKeys(right)))

\* The merged frame: one record per row, the columns X_gr under gr, the columns
\* X_gb and the unsuffixed fecha_publicacion under gb.  how='outer' sorts the
\* join keys lexicographically.
consolidar_fuentes(left, right) ==
    LET keys == SortedKeys(FrameKeys(left) \cup FrameKeys(right))
        joined == JoinKeys(left, right, keys)
    IN  [i \in 1..Len(joined) |->
            [book_id |-> joined[i].book_id,
             gr |-> UpcastSide(joined, "gr", i),
             gb |-> UpcastSide(joined, "gb", i)]]

----------------------------------------------------------------------------
(* src/integrate_pipeline.py, 6. DEDUPLICACION Y SUPERVIVENCIA              *)

\* group[['titulo_gr', 'titulo_gb']].values.flatten()
RECURSIVE FlattenTitulos(_)
FlattenTitulos(group) ==
    IF group = <<>> THEN <<>>
    ELSE <<Head(group).gr.titulo, Head(group).gb.titulo>> \o FlattenTitulos(Tail(group))

\* A choice of the first title instead of the longest
MaxByLen_First(xs) == xs[1]

\* A choice of the last title of maximal length instead of the first
RECURSIVE MaxByLen_Last(_)
MaxByLen_Last(xs) ==
    IF Len(xs) = 1 THEN xs[1]
    ELSE LET m == MaxByLen_Last(SubSeq(xs, 1, Len(xs) - 1)) IN
         IF Len(xs[Len(xs)]) >= Len(m) THEN xs[Len(xs)] ELSE m

\* max(xs, key=len) of a non-empty list: the first element of maximal length
RECURSIVE MaxByLen(_)
MaxByLen(xs) ==
    IF Len(xs) = 1 THEN xs[1]
    ELSE LET m == MaxByLen(SubSeq(xs, 1, Len(xs) - 1)) IN
         IF Len(xs[Len(xs)]) > Len(m) THEN xs[Len(xs)] ELSE m

\* s.split('|')
RECURSIVE SplitBar(_)
SplitBar(s) ==
    LET first == UpToBar(s) IN
    IF Len(first) = Len(s) THEN <<first>>
    ELSE <<first>> \o SplitBar(SubSeq(s, Len(first) + 2, Len(s)))

\* [a.strip() for a in str(v).split('|') if a.strip()], None when empty;
\* v is '' when the cell is null
BarList(cell) ==
    LET v == IF NotNa(cell) THEN PyStr(cell) ELSE <<>>
        parts == SplitBar(v)
        kept == SelectSeq([i \in 1..Len(parts) |-> Strip(parts[i])], LAMBDA a : a # <<>>)
    IN  [null |-> kept = <<>>, list |-> kept]

\* Number of non-null cells among the suffixed columns of one side of a row
CountNotNa(side) == Cardinality({c \in SuffixedColumns : CellNotNa(side, c)})

\* A choice of the Goodreads cell when it is non-null, else the Google Books one
PreferGb_GrFirst(first, c) ==
    IF CellNotNa(first.gr, c) THEN first.gr[c] ELSE first.gb[c]

\* group[c + '_gb'].iloc[0] if pd.notna(group[c + '_gb'].iloc[0])
\* else group[c + '_gr'].iloc[0]
PreferGb(first, c) ==
    IF CellNotNa(first.gb, c) THEN first.gb[c] ELSE first.gr[c]

\* A winner decided with count_gb > count_gr: a tie goes to Goodreads
FuenteGanadora_Strict(count_gb, count_gr) ==
    IF count_gb > count_gr THEN <<"googlebooks">> ELSE <<"goodreads">>

\* 'googlebooks' if count_gb >= count_gr else 'goodreads'
FuenteGanadora(count_gb, count_gr) ==
    IF count_gb >= count_gr THEN <<"googlebooks">> ELSE <<"goodreads">>

aplicar_supervivencia(group, ts_run) ==
    LET first == group[1]
        titulos_validos == SelectSeq(FlattenTitulos(group), LAMBDA t : NotNa(t))
        titulo == IF titulos_validos # <<>> THEN MaxByLen(titulos_validos) ELSE None
        autor_principal == PreferGb(first, "autor")
        count_gb == CountNotNa(first.gb)
        count_gr == CountNotNa(first.gr)
    IN  [book_id |-> first.book_id,
         titulo |-> titulo,
         titulo_normalizado |-> normalizar_titulo(titulo),
         subtitulo |-> IF NotNa(first.gb.subtitulo) THEN first.gb.subtitulo ELSE None,
         autor_principal |-> autor_principal,
         autor_normalizado |-> normalizar_autor(autor_principal),
         autores |-> BarList(IF "autores_lista_gb" \in MergedColumns
                             THEN first.gb.autores_lista ELSE <<>>),
         editorial |-> PreferGb(first, "editorial"),
         anio_publicacion |-> PreferGb(first, "anio_publicacion"),
         fecha_publicacion |-> IF "fecha_publicacion_gb" \in MergedColumns
                                  /\ NotNa(first.gb.fecha_publicacion)
                               THEN first.gb.fecha_publicacion ELSE None,
         idioma |-> IF NotNa(first.gb.idioma) THEN first.gb.idioma ELSE None,
         isbn10 |-> PreferGb(first, "isbn10"),
         isbn13 |-> PreferGb(first, "isbn13"),
         paginas |-> IF NumNotNa(first.gb.paginas) THEN first.gb.paginas ELSE NoneN,
         categorias |-> BarList(first.gb.categorias),
         precio |-> IF NumNotNa(first.gb.precio) THEN first.gb.precio ELSE NoneN,
         moneda |-> IF NotNa(first.gb.moneda) THEN first.gb.moneda ELSE None,
         rating |-> IF NumNotNa(first.gr.rating) THEN first.gr.rating ELSE NoneN,
         ratings_count |-> IF NumNotNa(first.gr.ratings_count)
                           THEN first.gr.ratings_count ELSE NoneN,
         fuente_ganadora |-> FuenteGanadora(count_gb, count_gr),
         ts_ultima_actualizacion |-> ts_run]

\* A resolver that consolidates each merged row on its own, without grouping
deduplicar_PerRow(merged, ts_run) ==
    [n \in 1..Len(merged) |-> aplicar_supervivencia(<<merged[n]>>, ts_run)]

\* max(titulos_validos, key=len) raises TypeError on a title that is a number
aplicar_supervivencia_raises(group) ==
    \E i \in 1..Len(group) :
        IsNumCell(group[i].gr.titulo) \/ IsNumCell(group[i].gb.titulo)

deduplicar_raises(merged) ==
    \E k \in FrameKeys(merged) :
        aplicar_supervivencia_raises(SelectSeq(merged, LAMBDA r : r.book_id = k))

\* for book_id, group in df_merged.groupby('book_id', dropna=False): the groups
\* come in sorted key order, each with its rows in the order of df_merged
deduplicar(merged, ts_run) ==
    LET keys == SortedKeys(FrameKeys(merged))
    IN  [n \in 1..Len(keys) |->
            aplicar_supervivencia(
                SelectSeq(merged, LAMBDA r : r.book_id = keys[n]), ts_run)]

----------------------------------------------------------------------------
(* src/integrate_pipeline.py, 7. BOOK_SOURCE_DETAIL                         *)

\* One frame of crear_source_detail: a row per record of the normalized frame
\* df, with the columns of the concatenated table (a column that the frame of
\* one source does not have is NaN on its rows)
DetailRows(df, name, file) ==
    [i \in 1..Len(df) |->
        [source_id |-> <<name \o "_">> \o PyStrNum(df[i].source_row_number),
         source_name |-> <<name>>,
         source_file |-> <<file>>,
         row_number |-> df[i].source_row_number,
         book_id_candidato |-> df[i].book_id,
         titulo_original |-> df[i].titulo,
         autor_original |-> df[i].autor,
         isbn10_original |-> df[i].isbn10,
         isbn13_original |-> df[i].isbn13,
         rating_original |-> IF name = "goodreads" THEN df[i].rating ELSE NaNN,
         anio_publicacion_original |-> df[i].anio_publicacion,
         editorial_original |-> IF name = "googlebooks" THEN df[i].editorial ELSE NaN,
         precio_original |-> IF name = "googlebooks" THEN df[i].precio ELSE NaNN,
         moneda_original |-> IF name = "googlebooks" THEN df[i].moneda ELSE NaN,
         idioma_original |-> IF name = "googlebooks" THEN df[i].idioma ELSE NaN,
         timestamp_ingesta |-> <<"ingesta_ts">>]]

\* A table that keeps, of the records of one candidate key, the first alone
crear_source_detail_OnePerKey(gr, gb) ==
    LET all == DetailRows(gr, "goodreads", "goodreads_books.json")
                   \o DetailRows(gb, "googlebooks", "googlebooks_books.csv")
        firsts == {i \in 1..Len(all) :
                      \A j \in 1..(i - 1) : all[j].book_id_candidato # all[i].book_id_candidato}
    IN  SelectSeq(all, LAMBDA r :
            \E i \in firsts : all[i] = r)

\* A table of the Goodreads records alone
crear_source_detail_GoodreadsOnly(gr, gb) ==
    DetailRows(gr, "goodreads", "goodreads_books.json")

\* pd.concat([gr_detail, gb_detail], ignore_index=True)
crear_source_detail(gr, gb) ==
    DetailRows(gr, "goodreads", "goodreads_books.json")
        \o DetailRows(gb, "googlebooks", "googlebooks_books.csv")

----------------------------------------------------------------------------
(* src/utils_quality.py and src/integrate_pipeline.py, 8. QUALITY METRICS   *)

\* Series.is_unique
is_unique(col) == \A i, j \in 1..Len(col) : i # j => col[i] # col[j]

\* Series.duplicated().sum(): the cells equal to an earlier cell
duplicated_sum(col) ==
    Cardinality({i \in 1..Len(col) : \E j \in 1..(i - 1) : col[j] = col[i]})

\* Number of rows of dim_book whose cell of column c is not null
NonNull(df, c) ==
    Cardinality({i \in 1..Len(df) :
        IF c \in {"autores", "categorias"} THEN ~df[i][c].null
        ELSE CellNotNa(df[i], c)})

\* A completeness that reports the share of null cells
calculate_completeness_Nulls(df, column) ==
    IF Len(df) = 0 THEN [num |-> 0, den |-> 1]
    ELSE [num |-> 100 * (Len(df) - NonNull(df, column)), den |-> Len(df)]

\* (non_null / total) * 100 as the fraction num / den; 0.0 for a frame without
\* rows.  (The float product and the fraction compare alike with 90 for every
\* total up to 3000.)
calculate_completeness(df, column) ==
    IF Len(df) = 0 THEN [num |-> 0, den |-> 1]
    ELSE [num |-> 100 * NonNull(df, column), den |-> Len(df)]

CommonCurrencies == {
    <<"U", "S", "D">>, <<"E", "U", "R">>, <<"G", "B", "P">>, <<"J", "P", "Y">>,
    <<"A", "U", "D">>, <<"C", "A", "D">>, <<"C", "H", "F">>, <<"C", "N", "Y">>,
    <<"S", "E", "K">>, <<"N", "Z", "D">>, <<"M", "X", "N">>, <<"B", "R", "L">>,
    <<"A", "R", "S">>, <<"C", "L", "P">> }

\* What validate_iso4217_currency returns: True for a code of the list, and
\* for any other value the result of re.match, a Match object or None
validate_iso4217_currency(currency) ==
    IF ~NotNa(currency) THEN "False"
    ELSE LET s == Upper(Strip(PyStr(currency))) IN
         IF s \in CommonCurrencies THEN "True"
         ELSE IF Len(s) = 3 /\ \A i \in 1..3 : s[i] \in UpperLetters THEN "Match"
         ELSE "None"

\* Of the non-null cells of the column, how many validate_iso4217_currency
\* returns True for (a None result sums as 0), with the percentage as the
\* fraction num / den; all zero for a column without a non-null cell
validate_currency_column(df, column) ==
    LET total == NonNull(df, column)
        valid_count ==
            Cardinality({i \in 1..Len(df) :
                            validate_iso4217_currency(df[i][column]) = "True"})
    IN  IF total = 0
        THEN [total_non_null |-> 0, valid_count |-> 0, valid_percentage |-> [num |-> 0, den |-> 1]]
        ELSE [total_non_null |-> total, valid_count |-> valid_count,
              valid_percentage |-> [num |-> 100 * valid_count, den |-> total]]

\* validate_currency_column sums the results: a Match object among them makes
\* the sum, or int() of it, raise TypeError
generar_quality_metrics_raises(dim) ==
    \E i \in 1..Len(dim) : validate_iso4217_currency(dim[i].moneda) = "Match"

generar_quality_metrics(dim, detail) ==
    [timestamp |-> <<"metrics_ts">>,
     dim_book |->
        [row_count |-> Len(dim),
         completeness |->
            [c \in {"titulo", "isbn13", "precio", "autor_principal", "anio_publicacion"} |->
                calculate_completeness(dim, c)],
         validation |-> [monedas_iso4217 |-> validate_currency_column(dim, "moneda")],
         duplicates |-> [book_id_duplicates |-> duplicated_sum(Column(dim, "book_id"))],
         by_source |->
            [f \in {dim[i].fuente_ganadora : i \in 1..Len(dim)} |->
                Cardinality({i \in 1..Len(dim) : dim[i].fuente_ganadora = f})]],
     book_source_detail |->
        [row_count |-> Len(detail),
         by_source |->
            [f \in {detail[i].source_name : i \in 1..Len(detail)} |->
                Cardinality({i \in 1..Len(detail) : detail[i].source_name = f})]]]

----------------------------------------------------------------------------
(* src/integrate_pipeline.py, 9. ASERCIONES BLOQUEANTES                     *)

\* assert completitud_titulo >= 90
MinCompletitud == 90
\* assert 0 <= precio_min and precio_max <= 1000, in cents
MaxPrecio == 100000
\* assert len(dim_book) >= 10
MinRows == 10

CompletitudOk(dim) ==
    LET c == calculate_completeness(dim, "titulo")
    IN  c.num >= MinCompletitud * c.den

\* A price assertion that looks at the first non-null price alone
PrecioOk_FirstOnly(dim) ==
    LET validos == SelectSeq(Column(dim, "precio"), NumNotNa)
    IN  validos # <<>> => 0 <= validos[1].num /\ validos[1].num <= MaxPrecio

\* if precios_validos.sum() > 0: 0 <= precio_min and precio_max <= 1000
PrecioOk(dim) ==
    LET validos == {i \in 1..Len(dim) : NumNotNa(dim[i].precio)}
    IN  validos # {} =>
            /\ \A i \in validos : 0 <= dim[i].precio.num
            /\ \A i \in validos : dim[i].precio.num <= MaxPrecio

\* A row-count assertion with > in place of >=
RowCountOk_Strict(dim) == Len(dim) > MinRows

RowCountOk(dim) == Len(dim) >= MinRows

\* An evaluation that checks the row count first
assert_calidad_CountFirst(dim) ==
    IF ~RowCountOk(dim) THEN "row_count"
    ELSE IF ~CompletitudOk(dim) THEN "titulo"
    ELSE IF ~is_unique(Column(dim, "book_id")) THEN "book_id"
    ELSE IF ~PrecioOk(dim) THEN "precio"
    ELSE ""

\* An evaluation that accepts every table
assert_calidad_Lenient(dim) == ""

\* The assertion that raises AssertionError, "" when none does
assert_calidad(dim) ==
    IF ~CompletitudOk(dim) THEN "titulo"
    ELSE IF ~is_unique(Column(dim, "book_id")) THEN "book_id"
    ELSE IF ~PrecioOk(dim) THEN "precio"
    ELSE IF ~RowCountOk(dim) THEN "row_count"
    ELSE ""

----------------------------------------------------------------------------
(* Harness of the ISBN functions: one argument, then the calls in turn     *)

\* Number of free characters appended to each stem of IsbnStems
TailLen == 3

IsbnAlphabet == Digits \cup {"X", "x", "-"}

\* 7 + TailLen characters give the 10-character shapes (plain, with a leading
\* space and hyphens, with an X inside), 10 + TailLen a 13-character shape
IsbnStems == {
    <<"0", "1", "3", "4", "6", "8", "5">>,
    <<" ", "0", "-", "1", "3", "4", "6", "8", "5">>,
    <<"0", "8", "0", "4", "4", "2", "9">>,
    <<"0", "1", "X", "4", "6", "8", "5">>,
    <<"9", "7", "8", "0", "1", "3", "4", "6", "8", "5">>,
    <<"1", "2">> }

IsbnInputs ==
    {None, NaN, <<>>}
    \cup {stem \o tail : stem \in IsbnStems, tail \in [1..TailLen -> IsbnAlphabet]}

NoRet == [isbn |-> None, valid10 |-> FALSE, valid13 |-> FALSE,
          isbn13 |-> None, isbn13_valid |-> FALSE, isbn13_again |-> None]

InitIsbn ==
    /\ pc = "isbn_input"
    /\ arg \in IsbnInputs
    /\ ret = NoRet
    /\ landing = <<>>
    /\ df_gr_raw = <<>> /\ df_gb_raw = <<>>
    /\ df_gr = <<>> /\ df_gb = <<>>
    /\ df_merged = <<>> /\ dim_book = <<>>
    /\ NoOutputs

UnchangedPipeline ==
    UNCHANGED <<landing, df_gr_raw, df_gb_raw, df_gr, df_gb, df_merged, dim_book,
                book_source_detail, quality_metrics, written, failure>>

\* normalize_isbn(arg), validate_isbn10(arg) and validate_isbn13(arg)
CallValidate ==
    /\ pc = "isbn_input"
    /\ ret' = [ret EXCEPT !.isbn = normalize_isbn(arg).isbn,
                          !.valid10 = validate_isbn10(arg),
                          !.valid13 = validate_isbn13(arg)]
    /\ pc' = "isbn_validated"
    /\ UNCHANGED arg /\ UnchangedPipeline

\* isbn10_to_isbn13(arg)
CallIsbn10ToIsbn13 ==
    /\ pc = "isbn_validated"
    /\ ret' = [ret EXCEPT !.isbn13 = isbn10_to_isbn13(arg)]
    /\ pc' = "isbn_converted"
    /\ UNCHANGED arg /\ UnchangedPipeline

\* validate_isbn13 on the value isbn10_to_isbn13 returned
CallValidateConverted ==
    /\ pc = "isbn_converted"
    /\ ret' = [ret EXCEPT !.isbn13_valid = validate_isbn13(ret.isbn13)]
    /\ pc' = "isbn_checked"
    /\ UNCHANGED arg /\ UnchangedPipeline

\* isbn10_to_isbn13(arg), a second time
CallIsbn10ToIsbn13Again ==
    /\ pc = "isbn_checked"
    /\ ret' = [ret EXCEPT !.isbn13_again = isbn10_to_isbn13(arg)]
    /\ pc' = "isbn_done"
    /\ UNCHANGED arg /\ UnchangedPipeline

NextIsbn ==
    \/ CallValidate
    \/ CallIsbn10ToIsbn13
    \/ CallValidateConverted
    \/ CallIsbn10ToIsbn13Again

SpecIsbn == InitIsbn /\ [][NextIsbn]_vars

\* C1: for every argument validate_isbn10 accepts, isbn10_to_isbn13 returns a
\* 13-character string of digits that validate_isbn13 accepts, and a second
\* call on the same argument returns the same string; for every argument
\* validate_isbn10 rejects, isbn10_to_isbn13 returns None.
C1_ShortToLongValid ==
    /\ pc \in {"isbn_checked", "isbn_done"} =>
          IF ret.valid10
          THEN /\ ret.isbn13 # None
               /\ Len(ret.isbn13) = 13
               /\ \A i \in 1..13 : ret.isbn13[i] \in Digits
               /\ ret.isbn13_valid
          ELSE ret.isbn13 = None
    /\ pc = "isbn_done" => ret.isbn13_again = ret.isbn13

\* C1 witness: the hyphen-free 0134685997 was accepted and converted
C1_Witness ==
    /\ pc = "isbn_done"
    /\ arg = <<"0", "1", "3", "4", "6", "8", "5", "9", "9", "7">>
    /\ ret.valid10
    /\ ret.isbn13 = <<"9", "7", "8", "0", "1", "3", "4", "6", "8", "5", "9", "9", "1">>
    /\ ret.isbn13_valid

----------------------------------------------------------------------------
(* Harness of the key generator: one staged row, normalized, then keyed    *)

KeyIsbn13s == {None, NaN,
    <<IntTag, "9", "7", "8", "0", "1", "3", "4", "6", "8", "5", "9", "9", "1">>,
    <<FloatTag, "9", "7", "8", "0", "1", "3", "4", "6", "8", "5", "9", "9", "1">>,
    <<"9", "7", "8", "0", "1", "3", "4", "6", "8", "5", "9", "9", "1">>,
    <<"9", "7", "8", "-", "0", "-", "3", "0", "6", "-", "4", "0", "6", "1", "5", "-", "7">>,
    <<"9", "7", "8", "0", "1", "3", "4", "6", "8", "5", "9", "9", "0">>,
    <<"9", "7", "8", "0", "1", "3", "4", "6", "8", "5", "9", "9", "X">>,
    <<"0", "1", "3", "4", "6", "8", "5", "9", "9", "7">>}

KeyIsbn10s == {None,
    <<IntTag, "1", "3", "4", "6", "8", "5", "9", "9", "7">>,
    <<"0", "1", "3", "4", "6", "8", "5", "9", "9", "7">>,
    <<"0", "-", "3", "0", "6", "-", "4", "0", "6", "1", "5", "-", "2">>,
    <<"0", "1", "3", "4", "6", "8", "5", "9", "9", "0">>,
    <<"0", "8", "0", "4", "4", "2", "9", "5", "7", "x">>,
    <<"9", "7", "8", "0", "1", "3", "4", "6", "8", "5", "9", "9", "1">>}

KeyTitulos == {None, NaN, <<"D", "u", "n", "e">>, <<" ", "D", "u", "n", "e", ":", " ", "B", "o", "o", "k", " ", "1">>}
KeyAutores == {None, <<"F", "r", "a", "n", "k", " ", "H", "e", "r", "b", "e", "r", "t">>}
KeyEditoriales == {None, NaN, <<>>, <<"A", "c", "e">>}
KeyAnios == {NoneN, NaNN, PyInt(1965), Float(1965)}

\* A staged row with the columns generar_book_id and normalizar_df read
KeyRow(isbn13, isbn10, titulo, autor, editorial, anio) ==
    [source_name |-> <<"goodreads">>, source_row_number |-> PyInt(1),
     titulo |-> titulo, autor |-> autor, isbn10 |-> isbn10, isbn13 |-> isbn13,
     idioma |-> None, moneda |-> None,
     editorial |-> editorial, anio_publicacion |-> anio]

KeyRows ==
    LET full == {KeyRow(i13, i10, ti, au, ed, an) :
                    i13 \in KeyIsbn13s, i10 \in KeyIsbn10s, ti \in KeyTitulos,
                    au \in KeyAutores, ed \in KeyEditoriales, an \in KeyAnios}
    IN  full
        \cup {DropColumn(r, "editorial") : r \in {x \in full : x.editorial = None}}
        \cup {DropColumn(r, "anio_publicacion") :
                 r \in {x \in full : x.anio_publicacion = NoneN}}

NoKeyRet == [row |-> <<>>, material |-> <<>>, book_id |-> None]

InitKey ==
    /\ pc = "key_input"
    /\ arg \in KeyRows
    /\ ret = NoKeyRet
    /\ landing = <<>>
    /\ df_gr_raw = <<>> /\ df_gb_raw = <<>>
    /\ df_gr = <<>> /\ df_gb = <<>>
    /\ df_merged = <<>> /\ dim_book = <<>>
    /\ NoOutputs

\* normalizar_df on the one-row frame
CallNormalizar ==
    /\ pc = "key_input"
    /\ ret' = [ret EXCEPT !.row = normalizar_row(arg)]
    /\ pc' = "key_normalized"
    /\ UNCHANGED arg /\ UnchangedPipeline

\* generar_book_id on the normalized row
CallGenerarBookId ==
    /\ pc = "key_normalized"
    /\ ret' = [ret EXCEPT !.material = KeyMaterial(ret.row),
                          !.book_id = generar_book_id(ret.row)]
    /\ pc' = "key_done"
    /\ UNCHANGED arg /\ UnchangedPipeline

NextKey == CallNormalizar \/ CallGenerarBookId

SpecKey == InitKey /\ [][NextKey]_vars

\* The two forms of a canonical key
IsIsbnKey(k) ==
    /\ Len(k) = 13
    /\ \A i \in 1..13 : k[i] \in Digits
    /\ validate_isbn13(k)
IsHashKey(k) ==
    /\ Len(k) = Len(HashPrefix) + 16
    /\ Take(k, Len(HashPrefix)) = HashPrefix
    /\ \A i \in (Len(HashPrefix) + 1)..Len(k) :
          \E j \in 1..Len(HexChars) : HexChars[j] = k[i]

\* C2: the tiers are tried in order and the first match wins: a non-null
\* isbn13 that validate_isbn13 accepts is the key verbatim, whatever the
\* isbn10; otherwise a non-null isbn10 that isbn10_to_isbn13 converts gives
\* the converted value; otherwise the key is 'hash_' and the content hash.
C2_TierOrder ==
    pc = "key_done" =>
        LET row == ret.row
            tier1 == NotNa(row.isbn13) /\ validate_isbn13(row.isbn13)
            conv == IF NotNa(row.isbn10) THEN isbn10_to_isbn13(row.isbn10) ELSE None
        IN  IF tier1 THEN ret.book_id = row.isbn13
            ELSE IF conv # None THEN ret.book_id = conv
            ELSE /\ IsHashKey(ret.book_id)
                 /\ ret.book_id = HashPrefix \o Take(md5_hexdigest(ret.material), 16)

\* C2 witness: a valid isbn13 beside a valid isbn10 of another book; the key is
\* the isbn13
C2_Witness ==
    /\ pc = "key_done"
    /\ ret.row.isbn13 = <<"9", "7", "8", "0", "1", "3", "4", "6", "8", "5", "9", "9", "1">>
    /\ ret.row.isbn10 = <<"0", "3", "0", "6", "4", "0", "6", "1", "5", "2">>
    /\ isbn10_to_isbn13(ret.row.isbn10) # ret.row.isbn13
    /\ isbn10_to_isbn13(ret.row.isbn10) # None
    /\ ret.book_id = ret.row.isbn13

\* The key material the specification describes: each absent component, be the
\* column missing or the value None or NaN, is the empty string
SpecText(row, c) ==
    IF c \notin DOMAIN row THEN <<>>
    ELSE IF ~NotNa(row[c]) THEN <<>> ELSE row[c]
SpecYear(row) ==
    IF "anio_publicacion" \notin DOMAIN row THEN <<>>
    ELSE IF ~NumNotNa(row.anio_publicacion) THEN <<>>
    ELSE PyStrNum(row.anio_publicacion)
SpecKeyMaterial(row) ==
    SpecText(row, "titulo_normalizado") \o <<"|">>
    \o SpecText(row, "autor_normalizado") \o <<"|">>
    \o SpecText(row, "editorial") \o <<"|">>
    \o SpecYear(row)

\* C4: in the content-hash tier the key material is
\* normalizedTitle|normalizedAuthor|publisher|year with the empty string for
\* every absent component, whatever form the absence takes.
C4_AbsentIsEmpty ==
    (pc = "key_done" /\ IsHashKey(ret.book_id)) =>
        ret.material = SpecKeyMaterial(ret.row)

\* C5: the key generator is total and its two key forms are disjoint: the key
\* is a str that is either 13 digits validate_isbn13 accepts or 'hash_' and 16
\* hex digits, never both, and no 13-digit key starts with 'hash_'.
C5_KeyTotalDisjoint ==
    pc = "key_done" =>
        /\ NotNa(ret.book_id)
        /\ IsIsbnKey(ret.book_id) \/ IsHashKey(ret.book_id)
        /\ ~(IsIsbnKey(ret.book_id) /\ IsHashKey(ret.book_id))
        /\ IsIsbnKey(ret.book_id) => Take(ret.book_id, Len(HashPrefix)) # HashPrefix

\* C5 witness: invalid identifiers and null text fields end in a hash key
C5_Witness ==
    /\ pc = "key_done"
    /\ arg.isbn13 = <<"9", "7", "8", "0", "1", "3", "4", "6", "8", "5", "9", "9", "0">>
    /\ arg.isbn10 = <<"0", "1", "3", "4", "6", "8", "5", "9", "9", "0">>
    /\ arg.titulo = None /\ arg.autor = None
    /\ IsHashKey(ret.book_id)

----------------------------------------------------------------------------
(* main(): the run of the pipeline over the two landing files               *)

\* Most records of landing/goodreads_books.json and most lines of
\* landing/googlebooks_books.csv
MaxA == 2
MaxB == 3

\* Records the scraper can deliver (JSON null is None)
GrScenario ==
    [row_number |-> PyInt(0), title |-> <<"E", "f", "f", "e", "c", "t", "i", "v", "e", " ", "C", "+", "+">>, author |-> <<"S", "c", "o", "t", "t", " ", "M", "e", "y", "e", "r", "s">>,
     rating |-> Float(45), ratings_count |-> NoneN, published_year |-> NoneN,
     book_url |-> None, isbn10 |-> <<"0", "1", "3", "4", "6", "8", "5", "9", "9", "7">>, isbn13 |-> None]
\* The same book with the ratings count and the page address scraped as well
GrScenarioRated ==
    [GrScenario EXCEPT !.ratings_count = PyInt(1200), !.book_url = <<"u">>]
\* A record without title or author, its isbn10 with a wrong check digit
GrUntitled ==
    [row_number |-> PyInt(0), title |-> None, author |-> None,
     rating |-> NoneN, ratings_count |-> NoneN, published_year |-> PyInt(2005),
     book_url |-> None, isbn10 |-> <<"0", "1", "3", "4", "6", "8", "5", "9", "9", "0">>, isbn13 |-> None]
GrPool == {GrScenario, GrScenarioRated, GrUntitled}

\* Lines the enricher can deliver (an empty CSV field is NaN)
GbScenario ==
    [row_number |-> PyInt(0), title |-> <<"E", "f", "f", "e", "c", "t", "i", "v", "e", " ", "C", "+", "+", ":", " ", "3", "r", "d", " ", "E", "d", "i", "t", "i", "o", "n">>, subtitle |-> NaN, authors |-> NaN,
     publisher |-> <<"A", "d", "d", "i", "s", "o", "n", "-", "W", "e", "s", "l", "e", "y">>, published_date |-> NaN, language |-> NaN,
     page_count |-> NaNN, categories |-> NaN, isbn10 |-> NaN,
     isbn13 |-> <<"9", "7", "8", "0", "1", "3", "4", "6", "8", "5", "9", "9", "1">>, price_amount |-> Float(4500), price_currency |-> <<"u", "s", "d">>]
GbOrwell ==
    [row_number |-> PyInt(0), title |-> <<"1", "9", "8", "4">>, subtitle |-> NaN,
     authors |-> <<"G", "e", "o", "r", "g", "e", " ", "O", "r", "w", "e", "l", "l", " ", "|", " ", "E", " ", "B", "l", "a", "i", "r">>, publisher |-> NaN, published_date |-> <<"1", "9", "4", "9">>,
     language |-> <<"E", "N">>, page_count |-> PyInt(412), categories |-> <<"F", "i", "c", "t", "i", "o", "n", "|", "S", "F">>,
     isbn10 |-> NaN, isbn13 |-> NaN, price_amount |-> NaNN, price_currency |-> NaN]
GbHyphen ==
    [row_number |-> PyInt(0), title |-> <<"E", "F", "F", "E", "C", "T", "I", "V", "E", " ", "C", "+", "+">>, subtitle |-> <<"5", "5", " ", "W", "a", "y", "s">>,
     authors |-> <<"S", " ", "M", "e", "y", "e", "r", "s">>, publisher |-> NaN, published_date |-> <<"2", "0", "0", "5", "-", "0", "5">>,
     language |-> <<"e", "n", "-", "U", "S">>, page_count |-> PyInt(320), categories |-> NaN,
     isbn10 |-> <<"0", "-", "1", "3", "-", "4", "6", "8", "5", "9", "9", "-", "7">>, isbn13 |-> NaN, price_amount |-> Float(99999),
     price_currency |-> <<"E", "U", "R">>]
GbPool == {GbScenario, GbOrwell, GbHyphen}

\* The files: row_number is the position of the record in its file
Numbered(rows) == [i \in 1..Len(rows) |-> [rows[i] EXCEPT !.row_number = PyInt(i)]]
Files(pool, max) ==
    {Numbered(rows) : rows \in UNION {[1..n -> pool] : n \in 0..max}}

\* run_ts = datetime.now().isoformat()
RunTs == <<"run_ts">>

\* A catalogue of n books, each with a title of its own and no ISBN
CatalogueBook(n) ==
    [row_number |-> PyInt(0), title |-> <<"B", "o", "o", "k", " ">> \o IntToStr(n),
     author |-> <<"A", "n", "n">>, rating |-> Float(40), ratings_count |-> PyInt(10),
     published_year |-> PyInt(2000), book_url |-> <<"u">>, isbn10 |-> None, isbn13 |-> None]
Catalogue(n) == Numbered([i \in 1..n |-> CatalogueBook(i)])

\* MinRows books, the first of them scraped a second time
CatalogueTwice ==
    Numbered([i \in 1..(MinRows + 1) |-> CatalogueBook(IF i > MinRows THEN 1 ELSE i)])

\* The scenario line with a price of 1500.00
GbPricey == [GbScenario EXCEPT !.price_amount = Float(150000)]

\* The scenario line priced in a currency that is not among the common ones
GbZloty == [GbScenario EXCEPT !.price_currency = <<"P", "L", "N">>]

\* The files of a run with about MinRows books
CatalogueFiles ==
    [goodreads : {Catalogue(MinRows - 1), Catalogue(MinRows), CatalogueTwice},
     googlebooks : {<<>>, Numbered(<<GbScenario>>), Numbered(<<GbPricey>>),
                    Numbered(<<GbZloty>>)},
     absent : {{}}]

\* A second Google Books line of the hyphenated ISBN-10, with a publisher
\* and without authors
GbReprint ==
    [GbHyphen EXCEPT !.authors = NaN, !.publisher = <<"P", "e", "a", "r", "s", "o", "n">>]

\* The files of a run where two Google Books lines of one book differ in the
\* cells they fill, in either order
ReprintFiles ==
    [goodreads : {Numbered(<<GrScenario>>)},
     googlebooks : {Numbered(<<GbHyphen, GbReprint>>), Numbered(<<GbReprint, GbHyphen>>)},
     absent : {{}}]

\* The files of a run with a structural fault: a file that does not exist, or
\* a file none of whose records has one of the columns
WithoutColumn(rows, c) == [i \in 1..Len(rows) |-> DropColumn(rows[i], c)]
FaultyFiles ==
    [goodreads : {Catalogue(MinRows)}, googlebooks : {Numbered(<<GbScenario>>)},
     absent : SUBSET {"goodreads_books.json", "googlebooks_books.csv"} \ {{}}]
    \cup {[goodreads |-> WithoutColumn(Catalogue(MinRows), c),
           googlebooks |-> Numbered(<<GbScenario>>), absent |-> {}] :
             c \in DOMAIN CatalogueBook(1)}
    \cup {[goodreads |-> Catalogue(MinRows),
           googlebooks |-> WithoutColumn(Numbered(<<GbScenario>>), c), absent |-> {}] :
             c \in DOMAIN GbScenario}

Init ==
    /\ pc = "start"
    /\ landing \in
          [goodreads : Files(GrPool, MaxA), googlebooks : Files(GbPool, MaxB),
           absent : {{}}]
          \cup CatalogueFiles \cup ReprintFiles \cup FaultyFiles
    /\ arg = <<>> /\ ret = <<>>
    /\ df_gr_raw = <<>> /\ df_gb_raw = <<>>
    /\ df_gr = <<>> /\ df_gb = <<>>
    /\ df_merged = <<>> /\ dim_book = <<>>
    /\ NoOutputs

\* except Exception: sys.exit(1), on the exception raised by step
Fails(step) == pc' = "failed" /\ failure' = step

\* 1. LECTURA
Leer ==
    /\ pc = "start"
    /\ IF leer_raises("goodreads_books.json", landing.absent)
       THEN Fails("leer_goodreads") /\ UNCHANGED <<df_gr_raw, df_gb_raw>>
       ELSE IF leer_raises("googlebooks_books.csv", landing.absent)
       THEN Fails("leer_googlebooks") /\ UNCHANGED <<df_gr_raw, df_gb_raw>>
       ELSE /\ df_gr_raw' = leer_goodreads(landing.goodreads)
            /\ df_gb_raw' = leer_googlebooks(landing.googlebooks)
            /\ pc' = "read"
            /\ UNCHANGED failure
    /\ UNCHANGED <<landing, arg, ret, df_gr, df_gb, df_merged, dim_book,
                   book_source_detail, quality_metrics, written>>

\* 2. STAGING
Mapear ==
    /\ pc = "read"
    /\ IF mapear_goodreads_raises(df_gr_raw)
       THEN Fails("mapear_goodreads") /\ UNCHANGED <<df_gr, df_gb>>
       ELSE IF mapear_googlebooks_raises(df_gb_raw)
       THEN Fails("mapear_googlebooks") /\ UNCHANGED <<df_gr, df_gb>>
       ELSE /\ df_gr' = mapear_goodreads(df_gr_raw)
            /\ df_gb' = mapear_googlebooks(df_gb_raw)
            /\ pc' = "staged"
            /\ UNCHANGED failure
    /\ UNCHANGED <<landing, arg, ret, df_gr_raw, df_gb_raw, df_merged, dim_book,
                   book_source_detail, quality_metrics, written>>

\* 3. NORMALIZACION
Normalizar ==
    /\ pc = "staged"
    /\ df_gr' = normalizar_df(df_gr)
    /\ df_gb' = normalizar_df(df_gb)
    /\ pc' = "normalized"
    /\ UNCHANGED <<landing, arg, ret, df_gr_raw, df_gb_raw, df_merged, dim_book,
                   book_source_detail, quality_metrics, written, failure>>

\* 4. GENERAR book_id.  On a frame without rows df.apply(..., axis=1) returns a
\* frame, not a column: depending on the pandas version the assignment to
\* df['book_id'] raises or leaves an empty column, so both outcomes are kept
AgregarBookId ==
    /\ pc = "normalized"
    /\ \/ /\ df_gr' = agregar_book_id(df_gr)
          /\ df_gb' = agregar_book_id(df_gb)
          /\ pc' = "keyed"
          /\ UNCHANGED failure
       \/ /\ df_gb = <<>>
          /\ Fails("agregar_book_id")
          /\ UNCHANGED <<df_gr, df_gb>>
    /\ UNCHANGED <<landing, arg, ret, df_gr_raw, df_gb_raw, df_merged, dim_book,
                   book_source_detail, quality_metrics, written>>

\* 5. CONSOLIDAR
Consolidar ==
    /\ pc = "keyed"
    /\ df_merged' = consolidar_fuentes(df_gr, df_gb)
    /\ pc' = "merged"
    /\ UNCHANGED <<landing, arg, ret, df_gr_raw, df_gb_raw, df_gr, df_gb, dim_book,
                   book_source_detail, quality_metrics, written, failure>>

\* 6. DEDUPLICAR.  The run ends when the resolver raises
Deduplicar ==
    /\ pc = "merged"
    /\ IF deduplicar_raises(df_merged)
       THEN Fails("deduplicar") /\ UNCHANGED dim_book
       ELSE /\ dim_book' = deduplicar(df_merged, RunTs)
            /\ pc' = "deduplicated"
            /\ UNCHANGED failure
    /\ UNCHANGED <<landing, arg, ret, df_gr_raw, df_gb_raw, df_gr, df_gb, df_merged,
                   book_source_detail, quality_metrics, written>>

\* 7. SOURCE DETAIL.  df_gb.apply(..., axis=1) on a frame without rows is a
\* frame again, and both outcomes of building the table from it are kept
CrearSourceDetail ==
    /\ pc = "deduplicated"
    /\ \/ /\ book_source_detail' = crear_source_detail(df_gr, df_gb)
          /\ pc' = "detailed"
          /\ UNCHANGED failure
       \/ /\ df_gb = <<>>
          /\ Fails("crear_source_detail")
          /\ UNCHANGED book_source_detail
    /\ UNCHANGED <<landing, arg, ret, df_gr_raw, df_gb_raw, df_gr, df_gb, df_merged,
                   dim_book, quality_metrics, written>>

\* 8. QUALITY METRICS
GenerarQualityMetrics ==
    /\ pc = "detailed"
    /\ IF generar_quality_metrics_raises(dim_book)
       THEN Fails("generar_quality_metrics") /\ UNCHANGED quality_metrics
       ELSE /\ quality_metrics' = generar_quality_metrics(dim_book, book_source_detail)
            /\ pc' = "measured"
            /\ UNCHANGED failure
    /\ UNCHANGED <<landing, arg, ret, df_gr_raw, df_gb_raw, df_gr, df_gb, df_merged,
                   dim_book, book_source_detail, written>>

\* 9. ASERCIONES: the AssertionError of assert_calidad ends the run
AssertCalidad ==
    /\ pc = "measured"
    /\ IF assert_calidad(dim_book) # ""
       THEN Fails(assert_calidad(dim_book))
       ELSE pc' = "asserted" /\ UNCHANGED failure
    /\ UNCHANGED <<landing, arg, ret, df_gr_raw, df_gb_raw, df_gr, df_gb, df_merged,
                   dim_book, book_source_detail, quality_metrics, written>>

\* 10. EMITIR OUTPUTS.  Each write puts its file and the run goes on, or it
\* raises (no space, no permission, no pyarrow) and the run ends with the files
\* written before left in place.
\* guardar_parquet(dim_book, 'standard/dim_book.parquet')
GuardarDimBook ==
    /\ pc = "asserted"
    /\ \/ written' = written \cup {"standard/dim_book.parquet"} /\ pc' = "saved_dim_book" /\ UNCHANGED failure
       \/ Fails("standard/dim_book.parquet") /\ UNCHANGED written
    /\ UNCHANGED <<landing, arg, ret, df_gr_raw, df_gb_raw, df_gr, df_gb, df_merged,
                   dim_book, book_source_detail, quality_metrics>>

\* guardar_parquet(book_source_detail, 'standard/book_source_detail.parquet')
GuardarSourceDetail ==
    /\ pc = "saved_dim_book"
    /\ \/ written' = written \cup {"standard/book_source_detail.parquet"} /\ pc' = "saved_detail" /\ UNCHANGED failure
       \/ Fails("standard/book_source_detail.parquet") /\ UNCHANGED written
    /\ UNCHANGED <<landing, arg, ret, df_gr_raw, df_gb_raw, df_gr, df_gb, df_merged,
                   dim_book, book_source_detail, quality_metrics>>

\* guardar_json(quality_metrics, 'docs/quality_metrics.json')
GuardarQualityMetrics ==
    /\ pc = "saved_detail"
    /\ \/ written' = written \cup {"docs/quality_metrics.json"} /\ pc' = "saved_metrics" /\ UNCHANGED failure
       \/ Fails("docs/quality_metrics.json") /\ UNCHANGED written
    /\ UNCHANGED <<landing, arg, ret, df_gr_raw, df_gb_raw, df_gr, df_gb, df_merged,
                   dim_book, book_source_detail, quality_metrics>>

\* generar_schema_md(dim_book, 'docs/schema.md'); main() then returns
GenerarSchemaMd ==
    /\ pc = "saved_metrics"
    /\ \/ written' = written \cup {"docs/schema.md"} /\ pc' = "completed" /\ UNCHANGED failure
       \/ Fails("docs/schema.md") /\ UNCHANGED written
    /\ UNCHANGED <<landing, arg, ret, df_gr_raw, df_gb_raw, df_gr, df_gb, df_merged,
                   dim_book, book_source_detail, quality_metrics>>

Next ==
    \/ Leer
    \/ Mapear
    \/ Normalizar
    \/ AgregarBookId
    \/ Consolidar
    \/ Deduplicar
    \/ CrearSourceDetail
    \/ GenerarQualityMetrics
    \/ AssertCalidad
    \/ GuardarDimBook
    \/ GuardarSourceDetail
    \/ GuardarQualityMetrics
    \/ GenerarSchemaMd

Spec == Init /\ [][Next]_vars

----------------------------------------------------------------------------
(* Properties of the run                                                    *)

Keyed == pc \in {"keyed", "merged", "deduplicated"}
Merged == pc \in {"merged", "deduplicated"}
Done == pc = "deduplicated"

Records(df) == {df[i] : i \in 1..Len(df)}

I13Scenario == <<"9", "7", "8", "0", "1", "3", "4", "6", "8", "5", "9", "9", "1">>

\* a's only identifier is a valid isbn10 and b's isbn13 is its conversion
SameBook(a, b) ==
    /\ ~NotNa(a.isbn13)
    /\ NotNa(a.isbn10) /\ validate_isbn10(a.isbn10)
    /\ b.isbn13 = isbn10_to_isbn13(a.isbn10)

\* C3: a normalized record whose only identifier is a valid isbn10 s and a
\* normalized record whose isbn13 is isbn10_to_isbn13(s) get the same book_id,
\* and after merge and survivorship one row of dim_book stands for both.
C3_SameBookSameKey ==
    Keyed =>
        \A a, b \in Records(df_gr) \cup Records(df_gb) :
            SameBook(a, b) =>
                /\ a.book_id = b.book_id
                /\ Done => Cardinality({i \in 1..Len(dim_book) :
                                          dim_book[i].book_id = a.book_id}) = 1

\* C3 witness: a Goodreads record with the isbn10 alone and a Google Books
\* record with the converted isbn13, consolidated
C3_Witness ==
    /\ Done
    /\ \E a \in Records(df_gr), b \in Records(df_gb) :
          SameBook(a, b) /\ a.book_id = I13Scenario

\* C6: deduplicar emits one row per book_id: the keys of dim_book are the keys
\* of df_merged, no two rows of dim_book share a key, so book_id is_unique as
\* assert_calidad requires and book_id_duplicates is zero.
C6_OneRowPerKey ==
    Done =>
        /\ FrameKeys(dim_book) = FrameKeys(df_merged)
        /\ Len(dim_book) = Cardinality(FrameKeys(df_merged))
        /\ is_unique(Column(dim_book, "book_id"))
        /\ duplicated_sum(Column(dim_book, "book_id")) = 0

\* C6 witness: several merged rows of one key were collapsed, beside another key
C6_Witness ==
    /\ Done
    /\ Len(dim_book) >= 2
    /\ Len(df_merged) > Len(dim_book)

\* The cells of record r as one side of a merged row holds them: equal, but for
\* the int64 to float64 change of a numeric column
Carries(side, r) ==
    \A c \in DOMAIN side :
        IF c \in NumericColumns
        THEN /\ NumNotNa(side[c]) = NumNotNa(r[c])
             /\ NumNotNa(r[c]) => side[c].num = r[c].num
        ELSE \/ side[c] = r[c]
             \/ IsNumCell(side[c]) /\ IsNumCell(r[c]) /\ Tail(side[c]) = Tail(r[c])

AllNull(side) == \A c \in DOMAIN side : ~CellNotNa(side, c)

\* C7: the merge loses nothing: every book_id of either frame is on a merged
\* row, every record of either frame is on a merged row, and on a merged row
\* whose book_id one frame does not have all the columns of that frame are null.
C7_MergeLosesNothing ==
    Merged =>
        /\ FrameKeys(df_gr) \cup FrameKeys(df_gb) \subseteq FrameKeys(df_merged)
        /\ \A r \in Records(df_gr) : \E m \in Records(df_merged) :
              m.book_id = r.book_id /\ Carries(m.gr, r)
        /\ \A r \in Records(df_gb) : \E m \in Records(df_merged) :
              m.book_id = r.book_id /\ Carries(m.gb, r)
        /\ \A m \in Records(df_merged) :
              /\ m.book_id \notin FrameKeys(df_gr) =>
                    DOMAIN m.gr = GrColumns \ {"book_id"} /\ AllNull(m.gr)
              /\ m.book_id \notin FrameKeys(df_gb) =>
                    DOMAIN m.gb = GbColumns \ {"book_id"} /\ AllNull(m.gb)

\* C7 witness: a key of Goodreads alone, a key of Google Books alone and a key
\* of both, merged
C7_Witness ==
    /\ Merged
    /\ FrameKeys(df_gr) \ FrameKeys(df_gb) # {}
    /\ FrameKeys(df_gb) \ FrameKeys(df_gr) # {}
    /\ FrameKeys(df_gr) \cap FrameKeys(df_gb) # {}

Max(a, b) == IF a >= b THEN a ELSE b

\* Number of records of df with key k
KeyCount(df, k) == Len(RowsOfKey(df, k))

\* No key is on several records of one frame and on several of the other
NoManyToMany ==
    \A k \in FrameKeys(df_gr) \cap FrameKeys(df_gb) :
        KeyCount(df_gr, k) = 1 \/ KeyCount(df_gb, k) = 1

\* C8, as the specification states it: the number of merged rows is at least
\* max(|A|, |B|) and at most |A| + |B|, same-source duplicate keys included.
C8_RowCountBounds ==
    Merged =>
        /\ Len(df_merged) >= Max(Len(df_gr), Len(df_gb))
        /\ Len(df_merged) <= Len(df_gr) + Len(df_gb)

\* C8, amended: the number of merged rows is at least max(|A|, |B|); a key of
\* a records of A and b records of B gives a * b rows, so the number is at most
\* |A| + |B| when no key is on several records of A and several of B.
C8_RowCountAmended ==
    Merged =>
        /\ Len(df_merged) >= Max(Len(df_gr), Len(df_gb))
        /\ NoManyToMany => Len(df_merged) <= Len(df_gr) + Len(df_gb)
        /\ \A k \in FrameKeys(df_merged) :
              KeyCount(df_merged, k) =
                 IF KeyCount(df_gr, k) > 0 /\ KeyCount(df_gb, k) > 0
                 THEN KeyCount(df_gr, k) * KeyCount(df_gb, k)
                 ELSE KeyCount(df_gr, k) + KeyCount(df_gb, k)

\* C8 witness: two Goodreads records and three Google Books records of one key
\* give six merged rows
C8_Witness ==
    /\ Merged
    /\ \E k \in FrameKeys(df_merged) :
          KeyCount(df_gr, k) = 2 /\ KeyCount(df_gb, k) = 3 /\ KeyCount(df_merged, k) = 6

\* The files of the scenario: one record of the book in each source
ScenarioFiles ==
    /\ landing.goodreads \in {Numbered(<<GrScenario>>), Numbered(<<GrScenarioRated>>)}
    /\ landing.googlebooks = Numbered(<<GbScenario>>)

\* C9: with Goodreads giving {isbn10 0134685997, Effective C++, Scott Meyers,
\* 4.5} and Google Books giving {isbn13 9780134685991, Effective C++: 3rd
\* Edition, Addison-Wesley, 45.0, usd}, both records get book_id 9780134685991
\* and dim_book has one row, with the longer title, Scott Meyers, 4.5, USD, and
\* googlebooks as fuente_ganadora when its non-null count is at least
\* Goodreads'.
C9_Scenario ==
    ScenarioFiles =>
        /\ Keyed => df_gr[1].book_id = I13Scenario /\ df_gb[1].book_id = I13Scenario
        /\ Done =>
              /\ Len(dim_book) = 1
              /\ dim_book[1].book_id = I13Scenario
              /\ dim_book[1].titulo = <<"E", "f", "f", "e", "c", "t", "i", "v", "e", " ", "C", "+", "+", ":", " ", "3", "r", "d", " ", "E", "d", "i", "t", "i", "o", "n">>
              /\ dim_book[1].autor_principal = <<"S", "c", "o", "t", "t", " ", "M", "e", "y", "e", "r", "s">>
              /\ dim_book[1].rating = Float(45)
              /\ dim_book[1].precio = Float(4500)
              /\ dim_book[1].moneda = <<"U", "S", "D">>
              /\ CountNotNa(df_merged[1].gb) >= CountNotNa(df_merged[1].gr)
                    => dim_book[1].fuente_ganadora = <<"googlebooks">>
              /\ CountNotNa(df_merged[1].gb) < CountNotNa(df_merged[1].gr)
                    => dim_book[1].fuente_ganadora = <<"goodreads">>

\* C9 witness: the scenario ran to the end and Google Books, with as many
\* non-null cells as Goodreads, is the winner
C9_Witness ==
    /\ ScenarioFiles
    /\ Done
    /\ landing.goodreads = Numbered(<<GrScenario>>)
    /\ CountNotNa(df_merged[1].gb) = CountNotNa(df_merged[1].gr)
    /\ dim_book[1].fuente_ganadora = <<"googlebooks">>

\* The non-null titles of both sources on the merged rows of key k
GroupTitles(k) ==
    {t \in {m.gr.titulo : m \in {r \in Records(df_merged) : r.book_id = k}}
           \cup {m.gb.titulo : m \in {r \in Records(df_merged) : r.book_id = k}} :
        NotNa(t)}

\* C10: the titulo of a consolidated row is a longest non-null title of its
\* group, both sources and all rows counted: it is one of them, none is
\* longer, and it is null only when the group has no non-null title.
C10_LongestTitle ==
    Done =>
        \A d \in Records(dim_book) :
            IF GroupTitles(d.book_id) = {}
            THEN d.titulo = None
            ELSE /\ d.titulo \in GroupTitles(d.book_id)
                 /\ \A t \in GroupTitles(d.book_id) : Len(t) <= Len(d.titulo)

\* C10 witness: a group whose longest title is not the first one, and a group
\* without any title
C10_Witness ==
    /\ Done
    /\ \E d \in Records(dim_book) :
          /\ Cardinality(GroupTitles(d.book_id)) >= 2
          /\ NotNa(df_merged[1].gr.titulo)
          /\ df_merged[1].book_id = d.book_id
          /\ d.titulo # df_merged[1].gr.titulo
    /\ \E d \in Records(dim_book) : GroupTitles(d.book_id) = {} /\ d.titulo = None

\* The first merged row of the group of key k (group.iloc[0])
FirstOfGroup(k) == SelectSeq(df_merged, LAMBDA r : r.book_id = k)[1]

\* C11: the fecha_publicacion of a consolidated row is the normalized Google
\* Books date of the first row of its group whenever that date is non-null,
\* and null otherwise.
C11_DateFromB ==
    Done =>
        \A d \in Records(dim_book) :
            d.fecha_publicacion =
                IF NotNa(FirstOfGroup(d.book_id).gb.fecha_publicacion)
                THEN FirstOfGroup(d.book_id).gb.fecha_publicacion
                ELSE None

\* The merged rows of key k, in row order
GroupOf(k) == SelectSeq(df_merged, LAMBDA r : r.book_id = k)

\* The cell d of column c is null: None or NaN in a column of text, no number
\* in a numeric one
IsNull(d, c) == IF c \in NumericColumns THEN ~NumNotNa(d) ELSE ~NotNa(d)

\* The Google Books cell of column c when it is non-null, else null
GbOrNull(d, m, c) ==
    IF CellNotNa(m.gb, c) THEN d = m.gb[c] ELSE IsNull(d, c)

\* The Goodreads cell of column c when it is non-null, else null
GrOrNull(d, m, c) ==
    IF CellNotNa(m.gr, c) THEN d = m.gr[c] ELSE IsNull(d, c)

\* The Google Books cell of column c when it is non-null, else the Goodreads one
GbElseGr(d, m, c) ==
    IF CellNotNa(m.gb, c) THEN d = m.gb[c] ELSE d = m.gr[c]

\* C12: on a group of one merged row, the primary author, the publisher, the
\* year and both ISBNs are the Google Books value when it is non-null and the
\* Goodreads value otherwise; the subtitle, the language, the page count, the
\* price and the currency are the Google Books value or null, never the
\* Goodreads one; the rating and the ratings count are the Goodreads value or
\* null.
C12_FieldRules ==
    Done =>
        \A d \in Records(dim_book) :
            Len(GroupOf(d.book_id)) = 1 =>
                LET m == GroupOf(d.book_id)[1] IN
                /\ GbElseGr(d.autor_principal, m, "autor")
                /\ GbElseGr(d.editorial, m, "editorial")
                /\ GbElseGr(d.anio_publicacion, m, "anio_publicacion")
                /\ GbElseGr(d.isbn10, m, "isbn10")
                /\ GbElseGr(d.isbn13, m, "isbn13")
                /\ GbOrNull(d.subtitulo, m, "subtitulo")
                /\ GbOrNull(d.idioma, m, "idioma")
                /\ GbOrNull(d.paginas, m, "paginas")
                /\ GbOrNull(d.precio, m, "precio")
                /\ GbOrNull(d.moneda, m, "moneda")
                /\ GrOrNull(d.rating, m, "rating")
                /\ GrOrNull(d.ratings_count, m, "ratings_count")

\* C12 witness: a group of one row with both sources present, whose two
\* authors differ and whose author is the Google Books one, with the rating
\* of Goodreads and the price of Google Books, and a group of one row whose
\* ISBN-10 is the Goodreads one for want of a Google Books one
C12_Witness ==
    /\ Done
    /\ \E d \in Records(dim_book) :
          /\ Len(GroupOf(d.book_id)) = 1
          /\ LET m == GroupOf(d.book_id)[1] IN
             /\ NotNa(m.gr.autor) /\ NotNa(m.gb.autor) /\ m.gr.autor # m.gb.autor
             /\ d.autor_principal = m.gb.autor
             /\ NumNotNa(m.gr.rating) /\ d.rating = m.gr.rating
             /\ NumNotNa(m.gb.precio) /\ d.precio = m.gb.precio
    /\ \E d \in Records(dim_book) :
          /\ Len(GroupOf(d.book_id)) = 1
          /\ LET m == GroupOf(d.book_id)[1] IN
             ~NotNa(m.gb.isbn10) /\ NotNa(m.gr.isbn10) /\ d.isbn10 = m.gr.isbn10

\* C13: the fuente_ganadora of a consolidated row is 'googlebooks' exactly when
\* the first merged row of its group has at least as many non-null cells in
\* the columns suffixed _gb as in the columns suffixed _gr, and 'goodreads'
\* otherwise: a tie gives 'googlebooks', a row with Goodreads alone gives
\* 'goodreads'.
C13_WinnerByCount ==
    Done =>
        \A d \in Records(dim_book) :
            LET m == FirstOfGroup(d.book_id) IN
            /\ d.fuente_ganadora \in {<<"googlebooks">>, <<"goodreads">>}
            /\ d.fuente_ganadora = <<"googlebooks">>
                   <=> CountNotNa(m.gb) >= CountNotNa(m.gr)
            /\ AllNull(m.gb) => d.fuente_ganadora = <<"goodreads">>

\* C13 witness: a tie won by Google Books and a row of Goodreads alone won by
\* Goodreads
C13_Witness ==
    /\ Done
    /\ \E d \in Records(dim_book) :
          LET m == FirstOfGroup(d.book_id) IN
          /\ CountNotNa(m.gb) = CountNotNa(m.gr)
          /\ CountNotNa(m.gb) > 0
          /\ d.fuente_ganadora = <<"googlebooks">>
    /\ \E d \in Records(dim_book) :
          LET m == FirstOfGroup(d.book_id) IN
          /\ AllNull(m.gb)
          /\ d.fuente_ganadora = <<"goodreads">>

\* The title candidates of the group of key k in the order the resolver reads
\* them: row by row, the Goodreads title of a row before its Google Books one
TitleAt(k, p) ==
    LET m == GroupOf(k)[(p + 1) \div 2]
    IN  IF p % 2 = 1 THEN m.gr.titulo ELSE m.gb.titulo

TitlePositions(k) == {p \in 1..(2 * Len(GroupOf(k))) : NotNa(TitleAt(k, p))}

\* A consolidated row without its run timestamp
WithoutTs(d) == [f \in DOMAIN d \ {"ts_ultima_actualizacion"} |-> d[f]]

\* A second run of the resolver, at another time
LaterTs == <<"later_ts">>

\* C14: the resolver is deterministic: a second run on the same merged table
\* gives the same consolidated rows, the run timestamp apart; and among the
\* titles of maximal length of a group the consolidated title is the first
\* candidate in row order, the Goodreads title of a row before its Google
\* Books title.
C14_Deterministic ==
    Done =>
        /\ Len(deduplicar(df_merged, LaterTs)) = Len(dim_book)
        /\ \A n \in 1..Len(dim_book) :
              /\ WithoutTs(deduplicar(df_merged, LaterTs)[n]) = WithoutTs(dim_book[n])
              /\ dim_book[n].ts_ultima_actualizacion = RunTs
              /\ deduplicar(df_merged, LaterTs)[n].ts_ultima_actualizacion = LaterTs
        /\ \A d \in Records(dim_book) :
              TitlePositions(d.book_id) # {} =>
                  \E p \in TitlePositions(d.book_id) :
                      /\ d.titulo = TitleAt(d.book_id, p)
                      /\ \A q \in TitlePositions(d.book_id) :
                            /\ Len(TitleAt(d.book_id, q)) <= Len(d.titulo)
                            /\ q < p => Len(TitleAt(d.book_id, q)) < Len(d.titulo)

\* C14 witness: a group with two different titles of the same maximal length,
\* consolidated to the one that comes first
C14_Witness ==
    /\ Done
    /\ \E d \in Records(dim_book) :
          \E p, q \in TitlePositions(d.book_id) :
              /\ p < q
              /\ TitleAt(d.book_id, p) # TitleAt(d.book_id, q)
              /\ Len(TitleAt(d.book_id, p)) = Len(TitleAt(d.book_id, q))
              /\ \A r \in TitlePositions(d.book_id) :
                    Len(TitleAt(d.book_id, r)) <= Len(TitleAt(d.book_id, p))
              /\ d.titulo = TitleAt(d.book_id, p)

----------------------------------------------------------------------------
(* Harness of the quality gate: one consolidated table, then assert_calidad *)

\* Most rows of a consolidated table, and most of them without a title
MaxRows == 11
MaxNulls == 2

\* A consolidated row with key k, title t and price p
GateRow(k, t, p) ==
    [book_id |-> k, titulo |-> t, titulo_normalizado |-> normalizar_titulo(t),
     subtitulo |-> None, autor_principal |-> <<"A", "n", "n">>,
     autor_normalizado |-> <<"a", "n", "n">>, autores |-> [null |-> TRUE, list |-> <<>>],
     editorial |-> None, anio_publicacion |-> Float(2000), fecha_publicacion |-> None,
     idioma |-> None, isbn10 |-> None, isbn13 |-> None, paginas |-> NoneN,
     categorias |-> [null |-> TRUE, list |-> <<>>], precio |-> p,
     moneda |-> IF NumNotNa(p) THEN <<"U", "S", "D">> ELSE None,
     rating |-> Float(40), ratings_count |-> Float(10),
     fuente_ganadora |-> <<"goodreads">>, ts_ultima_actualizacion |-> RunTs]

\* Prices in cents: none, -0.01, 0.00, 45.00, 1000.00, 1000.01, 1500.00
GatePrices ==
    {NoneN, NaNN, Float(0 - 1), Float(0), Float(4500), Float(MaxPrecio),
     Float(MaxPrecio + 1), Float(150000)}

\* The table of n rows whose last nulls rows have no title, whose first two
\* rows carry the prices p1 and p2, and whose last row repeats the key of the
\* first when dup
GateSet(n, nulls, dup, p1, p2) ==
    [i \in 1..n |->
        GateRow(HashPrefix \o IntToStr(IF dup /\ i = n THEN 1 ELSE i),
                IF i > n - nulls THEN None ELSE <<"B", "o", "o", "k">>,
                IF i = 1 THEN p1 ELSE IF i = 2 THEN p2 ELSE NoneN)]

GateSets ==
    {GateSet(n, nulls, dup, p1, p2) :
        n \in 0..MaxRows, nulls \in 0..MaxNulls, dup \in BOOLEAN,
        p1 \in GatePrices, p2 \in GatePrices}

NoGateRet == [failure |-> "", completitud |-> FALSE, precio |-> FALSE, rows |-> FALSE]

InitGate ==
    /\ pc = "gate_input"
    /\ arg \in GateSets
    /\ ret = NoGateRet
    /\ landing = <<>>
    /\ df_gr_raw = <<>> /\ df_gb_raw = <<>>
    /\ df_gr = <<>> /\ df_gb = <<>>
    /\ df_merged = <<>> /\ dim_book = <<>>
    /\ NoOutputs

\* assert_calidad(arg), and the verdict of each of its assertions on arg
CallAssertCalidad ==
    /\ pc = "gate_input"
    /\ ret' = [failure |-> assert_calidad(arg),
               completitud |-> CompletitudOk(arg),
               precio |-> PrecioOk(arg),
               rows |-> RowCountOk(arg)]
    /\ pc' = "gate_done"
    /\ UNCHANGED arg /\ UnchangedPipeline

NextGate == CallAssertCalidad

SpecGate == InitGate /\ [][NextGate]_vars

\* What a consolidated table is, in the terms of the specification
TitleShareOk(t) ==
    Len(t) > 0
    /\ 100 * Cardinality({i \in 1..Len(t) : NotNa(t[i].titulo)}) >= 90 * Len(t)
KeysUnique(t) ==
    \A i, j \in 1..Len(t) : t[i].book_id = t[j].book_id => i = j
PriceOutOfRange(t) ==
    \E i \in 1..Len(t) :
        /\ t[i].precio.na = ""
        /\ t[i].precio.num < 0 \/ t[i].precio.num > 100000
GateTitleShareOk == TitleShareOk(arg)
GateKeysUnique == KeysUnique(arg)
GatePriceOutOfRange == PriceOutOfRange(arg)

\* C15: the row-count assertion fails on every table of fewer than 10 rows and
\* on no table of 10 rows or more; a table of fewer than 10 rows is rejected
\* whatever else it satisfies, and a table that satisfies the other three
\* assertions is rejected for its row count exactly when it has fewer than 10
\* rows, so that 9 rows are rejected and 10 accepted.
C15_MinRows ==
    pc = "gate_done" =>
        /\ ret.rows <=> Len(arg) >= 10
        /\ Len(arg) < 10 => ret.failure # ""
        /\ ret.failure = "row_count" => Len(arg) < 10
        /\ GateTitleShareOk /\ GateKeysUnique /\ ~GatePriceOutOfRange =>
              /\ Len(arg) < 10 => ret.failure = "row_count"
              /\ Len(arg) >= 10 => ret.failure = ""

\* C15 witness: a table of 9 rows that satisfies the other assertions is
\* rejected for its row count
C15_Witness ==
    /\ pc = "gate_done"
    /\ Len(arg) = 9
    /\ GateTitleShareOk /\ GateKeysUnique /\ ~GatePriceOutOfRange
    /\ ret.failure = "row_count"

\* C16: the price assertion fails exactly when some non-null price is below 0
\* or above 1000: it passes on a table without non-null prices and on prices
\* equal to 0 and to 1000, and one price above 1000 among prices in range
\* rejects the table.
C16_PriceRange ==
    pc = "gate_done" =>
        /\ ret.precio <=> ~GatePriceOutOfRange
        /\ ret.failure = "precio" => GatePriceOutOfRange
        /\ GatePriceOutOfRange => ret.failure # ""
        /\ GateTitleShareOk /\ GateKeysUnique /\ GatePriceOutOfRange =>
              ret.failure = "precio"

\* C16 witness: a table of 10 rows or more, complete and unique, with the
\* prices 45.00 and 1500.00, is rejected for its prices
C16_Witness ==
    /\ pc = "gate_done"
    /\ Len(arg) >= 10
    /\ GateTitleShareOk /\ GateKeysUnique
    /\ arg[1].precio = Float(4500) /\ arg[2].precio = Float(150000)
    /\ ~ret.precio
    /\ ret.failure = "precio"

\* C17: the assertions are evaluated in the order title completeness (at least
\* 90%), key uniqueness, price range, minimum row count, and the first one
\* violated is the failure reported.
C17_AssertionOrder ==
    pc = "gate_done" =>
        ret.failure =
            IF ~GateTitleShareOk THEN "titulo"
            ELSE IF ~GateKeysUnique THEN "book_id"
            ELSE IF GatePriceOutOfRange THEN "precio"
            ELSE IF Len(arg) < 10 THEN "row_count"
            ELSE ""

\* C17 witness: a table that violates all four assertions is reported for its
\* titles
C17_Witness ==
    /\ pc = "gate_done"
    /\ ~GateTitleShareOk /\ ~GateKeysUnique /\ GatePriceOutOfRange
    /\ Len(arg) < 10 /\ Len(arg) > 1
    /\ ret.failure = "titulo"

\* The files of step 10, and the three tables among them
Artifacts ==
    {"standard/dim_book.parquet", "standard/book_source_detail.parquet",
     "docs/quality_metrics.json", "docs/schema.md"}
ThreeTables == Artifacts \ {"docs/schema.md"}

\* The run is over: main() returned, or sys.exit(1)
Terminal == pc \in {"completed", "failed"}

\* The run is past the evaluation of the quality gate
GateEvaluated ==
    \/ pc \in {"asserted", "saved_dim_book", "saved_detail", "saved_metrics", "completed"}
    \/ pc = "failed" /\ failure \in {"titulo", "book_id", "precio", "row_count"} \cup Artifacts

\* dim_book violates one of the four assertions of the gate
GateViolated ==
    ~(TitleShareOk(dim_book) /\ KeysUnique(dim_book) /\ ~PriceOutOfRange(dim_book)
      /\ Len(dim_book) >= 10)

\* C18: when dim_book violates an assertion of the quality gate, the run that
\* reaches the gate ends failed there, with the quality metrics computed and
\* none of the four files written; and at every point of every run a file is
\* written only after the gate was passed by a table that violates none.
C18_GateBlocksOutputs ==
    /\ GateEvaluated /\ GateViolated =>
          /\ pc = "failed"
          /\ failure \in {"titulo", "book_id", "precio", "row_count"}
          /\ quality_metrics # NoMetrics
          /\ quality_metrics.dim_book.row_count = Len(dim_book)
          /\ written = {}
    /\ written # {} => GateEvaluated /\ ~GateViolated
    /\ written \subseteq Artifacts

\* C18 witness: a run of eleven books, one of them priced 1500.00, ended at the
\* price assertion with its metrics computed and nothing written
C18_Witness ==
    /\ pc = "failed"
    /\ failure = "precio"
    /\ Len(dim_book) > 10
    /\ quality_metrics # NoMetrics
    /\ written = {}

\* C19: in every terminal state the three tables (consolidated table,
\* traceability table, quality report) are all written or none of them is,
\* also when a write of step 10 raises.
C19_AllOrNothing ==
    Terminal => written \cap ThreeTables \in {{}, ThreeTables}

\* The columns of the input contract that the files of the run do not have
GrContract ==
    {"row_number", "title", "author", "rating", "ratings_count", "published_year",
     "book_url", "isbn10", "isbn13"}
MissingGr ==
    IF landing.goodreads = <<>> THEN {} ELSE GrContract \ DOMAIN landing.goodreads[1]
MissingGb ==
    IF landing.googlebooks = <<>> THEN {} ELSE GbRequired \ DOMAIN landing.googlebooks[1]

\* C20 as stated: a run one of whose files is absent or lacks a column of the
\* input contract writes no file and ends failed.
C20_StructuralFatal ==
    landing.absent # {} \/ MissingGr # {} \/ MissingGb # {} =>
        /\ written = {}
        /\ Terminal => pc = "failed"

\* The columns of Goodreads read with df_gr.get: absent, they are read as None
GrOptional == {"published_year", "book_url", "isbn10", "isbn13"}

\* C20, amended: a run one of whose files is absent, or whose Goodreads file
\* lacks one of row_number, title, author, rating, ratings_count, or whose
\* Google Books file lacks any column of its contract, writes no file and ends
\* failed at the reading or at the staging.  A Goodreads file that lacks only
\* published_year, book_url, isbn10 or isbn13 is no error: the column is read
\* as null on every record and the run goes on.
C20_StructuralAmended ==
    /\ landing.absent # {} \/ MissingGr \ GrOptional # {} \/ MissingGb # {} =>
          /\ written = {}
          /\ pc \in {"start", "read", "failed"}
          /\ pc = "failed" =>
                failure \in {"leer_goodreads", "leer_googlebooks",
                             "mapear_goodreads", "mapear_googlebooks"}
    /\ landing.absent = {} /\ MissingGb = {} /\ MissingGr # {} /\ MissingGr \subseteq GrOptional =>
          /\ failure \notin {"leer_goodreads", "leer_googlebooks",
                             "mapear_goodreads", "mapear_googlebooks"}
          /\ pc \notin {"start", "read"} =>
                \A r \in Records(df_gr) :
                    /\ "published_year" \in MissingGr => ~NumNotNa(r.anio_publicacion)
                    /\ "book_url" \in MissingGr => r.book_url = None
                    /\ "isbn10" \in MissingGr => r.isbn10 = None
                    /\ "isbn13" \in MissingGr => r.isbn13 = None

\* C20 witness: a run whose Google Books file lacks a column ended failed at
\* the staging with nothing written
C20_Witness ==
    /\ MissingGb # {}
    /\ pc = "failed"
    /\ failure = "mapear_googlebooks"
    /\ written = {}

\* The traceability table has been built
Detailed ==
    \/ pc \in {"detailed", "measured", "asserted", "saved_dim_book", "saved_detail",
               "saved_metrics", "completed"}
    \/ pc = "failed" /\ failure \in {"generar_quality_metrics", "titulo", "book_id",
                                     "precio", "row_count"} \cup Artifacts

\* The rows of the traceability table that stand for record i of the file of
\* source name
DetailOf(name, i) ==
    {n \in 1..Len(book_source_detail) :
        /\ book_source_detail[n].source_name = <<name>>
        /\ book_source_detail[n].row_number.num = i}

\* C21: the traceability table has one row per input record: its row count is
\* |A| + |B|, every record of either file has exactly one row with its source
\* name and its row number, and every row stands for a record of a file.
C21_OneRowPerRecord ==
    Detailed =>
        /\ Len(book_source_detail) = Len(landing.goodreads) + Len(landing.googlebooks)
        /\ \A i \in 1..Len(landing.goodreads) :
              /\ landing.goodreads[i].row_number = PyInt(i)
              /\ Cardinality(DetailOf("goodreads", i)) = 1
        /\ \A i \in 1..Len(landing.googlebooks) :
              /\ landing.googlebooks[i].row_number = PyInt(i)
              /\ Cardinality(DetailOf("googlebooks", i)) = 1
        /\ \A n \in 1..Len(book_source_detail) :
              \/ n \in UNION {DetailOf("goodreads", i) : i \in 1..Len(landing.goodreads)}
              \/ n \in UNION {DetailOf("googlebooks", i) : i \in 1..Len(landing.googlebooks)}

\* C21 witness: a record of Goodreads and a record of Google Books merged under
\* one key, each with its own row, and two records of one file with one key
C21_Witness ==
    /\ Detailed
    /\ \E m, n \in 1..Len(book_source_detail) :
          /\ book_source_detail[m].source_name = <<"goodreads">>
          /\ book_source_detail[n].source_name = <<"googlebooks">>
          /\ book_source_detail[m].book_id_candidato = book_source_detail[n].book_id_candidato
    /\ \E m, n \in 1..Len(book_source_detail) :
          /\ m # n
          /\ book_source_detail[m].source_name = book_source_detail[n].source_name
          /\ book_source_detail[m].book_id_candidato = book_source_detail[n].book_id_candidato

\* C22: every traceability row carries the values its source delivered: the
\* ISBNs of a record of either source, and the language and the currency of a
\* record of Google Books, are in its row as they were read, not as the field
\* normalizer left them.
C22_OriginalValues ==
    Detailed =>
        /\ \A i \in 1..Len(df_gr_raw) :
              \A n \in DetailOf("goodreads", i) :
                  /\ book_source_detail[n].isbn10_original = DfGet(df_gr_raw[i], "isbn10", None)
                  /\ book_source_detail[n].isbn13_original = DfGet(df_gr_raw[i], "isbn13", None)
        /\ \A i \in 1..Len(df_gb_raw) :
              \A n \in DetailOf("googlebooks", i) :
                  /\ book_source_detail[n].isbn10_original = df_gb_raw[i].isbn10
                  /\ book_source_detail[n].isbn13_original = df_gb_raw[i].isbn13
                  /\ book_source_detail[n].idioma_original = df_gb_raw[i].language
                  /\ book_source_detail[n].moneda_original = df_gb_raw[i].price_currency

\* The quality report has been computed
Measured == quality_metrics # NoMetrics

\* The completeness the report gives for column c is 100 times the number of
\* non-null cells of c over the number of rows of dim_book
CompletenessIsShare(c) ==
    LET reported == quality_metrics.dim_book.completeness[c]
        filled == Cardinality({i \in 1..Len(dim_book) : ~IsNull(dim_book[i][c], c)})
    IN  /\ Len(dim_book) > 0
        /\ reported.num * Len(dim_book) = 100 * filled * reported.den

\* C23 as stated: the report has a completeness for each of titulo, isbn10,
\* isbn13, precio, autor_principal and anio_publicacion, each equal to 100
\* times the non-null cells over the rows.
C23_CompletenessSix ==
    Measured =>
        /\ {"titulo", "isbn10", "isbn13", "precio", "autor_principal", "anio_publicacion"}
              \subseteq DOMAIN quality_metrics.dim_book.completeness
        /\ \A c \in DOMAIN quality_metrics.dim_book.completeness : CompletenessIsShare(c)

\* C23, amended: the report has a completeness for titulo, isbn13, precio,
\* autor_principal and anio_publicacion and for no other field (none for
\* isbn10), each equal to 100 times the non-null cells over the rows.
C23_CompletenessFive ==
    Measured =>
        /\ DOMAIN quality_metrics.dim_book.completeness =
              {"titulo", "isbn13", "precio", "autor_principal", "anio_publicacion"}
        /\ \A c \in DOMAIN quality_metrics.dim_book.completeness : CompletenessIsShare(c)

\* C23 witness: a report on a table of several rows, some with a price and
\* some without, and all with a title
C23_Witness ==
    /\ Measured
    /\ Len(dim_book) > 1
    /\ \E i, j \in 1..Len(dim_book) :
          NumNotNa(dim_book[i].precio) /\ ~NumNotNa(dim_book[j].precio)
    /\ quality_metrics.dim_book.completeness["titulo"].num
          = 100 * quality_metrics.dim_book.completeness["titulo"].den
    /\ quality_metrics.dim_book.completeness["precio"].num > 0


\* The quality report has been attempted
MetricsAttempted ==
    Measured \/ (pc = "failed" /\ failure = "generar_quality_metrics")

\* A currency value of exactly three upper-case letters
ThreeUpper(m) ==
    /\ NotNa(m)
    /\ Len(m) = 3
    /\ \A i \in 1..3 : m[i] \in UpperLetters

\* C24: for a table with a three-letter currency code outside the allow-list
\* (such as 'PLN'), computing the report succeeds and the report counts every
\* three-letter upper-case code, that one included, as valid among the
\* non-null currency values.
C24_ThreeLetterValid ==
    (/\ MetricsAttempted
     /\ \E i \in 1..Len(dim_book) :
           ThreeUpper(dim_book[i].moneda) /\ dim_book[i].moneda \notin CommonCurrencies)
    => /\ Measured
       /\ quality_metrics.dim_book.validation.monedas_iso4217.valid_count =
             Cardinality({i \in 1..Len(dim_book) : ThreeUpper(dim_book[i].moneda)})
       /\ quality_metrics.dim_book.validation.monedas_iso4217.total_non_null =
             Cardinality({i \in 1..Len(dim_book) : NotNa(dim_book[i].moneda)})


(***************************************************************************)
(* normalizar_fecha on its own: the dates it is given and what it returns  *)
(***************************************************************************)
FechaChars == {"1", "9", "x", "-"}

\* Four characters where a year stands
FechaYears == [1..4 -> FechaChars]

\* What follows the year
FechaRests ==
    {<<>>, <<"-", "0", "5">>, <<"-", "x", "5">>, <<"0", "5", "-">>,
     <<"-", "0", "5", "-", "0", "7">>, <<"-", "0", "x", "-", "0", "7">>,
     <<"-", "0", "5", "-", "x", "y">>, <<"-", "0", "5", "0", "7", "-">>,
     <<"-", "0", "5", "-", "0", "7", "T">>}

\* The dates: a year and what follows, bare or between blanks, and the nulls
FechaInputs ==
    {y \o r : y \in FechaYears, r \in FechaRests}
    \cup {<<" ">> \o y \o r \o <<" ">> : y \in {<<"1", "9", "9", "9">>, <<"1", "9", "x", "9">>},
                                          r \in FechaRests}
    \cup {None, NaN, <<>>}

InitFecha ==
    /\ pc = "fecha_input"
    /\ arg \in FechaInputs
    /\ ret = None
    /\ landing = <<>>
    /\ df_gr_raw = <<>> /\ df_gb_raw = <<>>
    /\ df_gr = <<>> /\ df_gb = <<>>
    /\ df_merged = <<>> /\ dim_book = <<>>
    /\ NoOutputs

\* normalizar_fecha(arg)
CallNormalizarFecha ==
    /\ pc = "fecha_input"
    /\ ret' = normalizar_fecha(arg)
    /\ pc' = "fecha_returned"
    /\ UNCHANGED arg /\ UnchangedPipeline

NextFecha == CallNormalizarFecha

SpecFecha == InitFecha /\ [][NextFecha]_vars

\* The positions of s other than the hyphens at 5 and 8 hold digits
DigitsAround(s) ==
    \A i \in 1..Len(s) : i \notin {5, 8} => s[i] \in Digits

\* YYYY-MM-DD, YYYY-MM and YYYY, all of digits
FullDate(s) == Len(s) = 10 /\ s[5] = "-" /\ s[8] = "-" /\ DigitsAround(s)
YearMonth(s) == Len(s) = 7 /\ s[5] = "-" /\ DigitsAround(s)
YearOnly(s) == Len(s) = 4 /\ DigitsAround(s)

\* C25: normalizar_fecha returns a non-null value for three shapes only: the
\* trimmed YYYY-MM-DD of digits unchanged, YYYY-MM as YYYY-MM-01 and YYYY as
\* YYYY-01-01; every other input, a 10- or 7-character string with the hyphens
\* in place but a non-digit elsewhere included, yields null.
C25_ThreeShapes ==
    pc = "fecha_returned" =>
        LET s == IF NotNa(arg) THEN Strip(arg) ELSE <<>> IN
        ret = IF FullDate(s) THEN s
              ELSE IF YearMonth(s) THEN s \o <<"-", "0", "1">>
              ELSE IF YearOnly(s) THEN s \o <<"-", "0", "1", "-", "0", "1">>
              ELSE None


\* The validators have returned
IsbnValidated == pc \in {"isbn_validated", "isbn_converted", "isbn_checked", "isbn_done"}

\* The cleaned argument, the empty string when nothing is left of it
CleanedArg == IF clean_isbn(arg) = None THEN <<>> ELSE clean_isbn(arg)

\* The positions of the cleaned argument that hold an X
XPositions == {i \in 1..Len(CleanedArg) : CleanedArg[i] = "X"}

\* The weighted sum of a ten-character string of digits with a last X,
\* the X counted as 10
TotalWithLastX(s) ==
    DigitVal(s[1]) * 10 + DigitVal(s[2]) * 9 + DigitVal(s[3]) * 8 + DigitVal(s[4]) * 7
    + DigitVal(s[5]) * 6 + DigitVal(s[6]) * 5 + DigitVal(s[7]) * 4 + DigitVal(s[8]) * 3
    + DigitVal(s[9]) * 2 + 10

\* C26: the validators answer malformed input with false and never with an
\* error: validate_isbn10 is false for a cleaned 10-character string with an X
\* in positions 0 to 8, validate_isbn13 is false for a cleaned 13-character
\* string with an X, both are false for null, empty and wrong-length input, and
\* validate_isbn10 accepts an X only as tenth character, with the value 10.
C26_MalformedInvalid ==
    IsbnValidated =>
        /\ ret.valid10 \in BOOLEAN /\ ret.valid13 \in BOOLEAN
        /\ Len(CleanedArg) # 10 => ~ret.valid10
        /\ Len(CleanedArg) # 13 => ~ret.valid13
        /\ XPositions \cap (1..9) # {} => ~ret.valid10
        /\ XPositions # {} => ~ret.valid13
        /\ (Len(CleanedArg) = 10 /\ XPositions = {10}) =>
              (ret.valid10 <=> TotalWithLastX(CleanedArg) % 11 = 0)

\* C26 witness: a cleaned 10-character argument with an X at position 2 that
\* would sum to a multiple of 11 were the X worth 10, found invalid
C26_Witness ==
    /\ IsbnValidated
    /\ Len(CleanedArg) = 10
    /\ XPositions = {3}
    /\ (DigitVal(CleanedArg[1]) * 10 + DigitVal(CleanedArg[2]) * 9 + 80
        + DigitVal(CleanedArg[4]) * 7 + DigitVal(CleanedArg[5]) * 6
        + DigitVal(CleanedArg[6]) * 5 + DigitVal(CleanedArg[7]) * 4
        + DigitVal(CleanedArg[8]) * 3 + DigitVal(CleanedArg[9]) * 2
        + DigitVal(CleanedArg[10])) % 11 = 0
    /\ ~ret.valid10


\* The non-null cells of column c that the merged rows of key k carry on one
\* side, "gr" or "gb"
GroupValues(k, side, c) ==
    {GroupOf(k)[i][side][c] :
        i \in {n \in 1..Len(GroupOf(k)) : CellNotNa(GroupOf(k)[n][side], c)}}

\* The column of dim_book that the merged column c is consolidated into
Consolidated(c) == IF c = "autor" THEN "autor_principal" ELSE c

\* C27: on a group of several merged rows, the primary author, the publisher,
\* the year and both ISBNs of the consolidated row are taken over the whole
\* group: a Google Books value of some row of the group when there is one,
\* else a Goodreads value of some row when there is one.
C27_WholeGroup ==
    Done =>
        \A d \in Records(dim_book) :
            Len(GroupOf(d.book_id)) > 1 =>
                \A c \in {"autor", "editorial", "anio_publicacion", "isbn10", "isbn13"} :
                    IF GroupValues(d.book_id, "gb", c) # {}
                    THEN d[Consolidated(c)] \in GroupValues(d.book_id, "gb", c)
                    ELSE GroupValues(d.book_id, "gr", c) # {}
                            => d[Consolidated(c)] \in GroupValues(d.book_id, "gr", c)


\* The cells a and b of column c hold the same value, whatever the dtype the
\* merge has given the column (2005 and 2005.0 are the same value)
SameValue(a, b, c) ==
    IF c \in NumericColumns THEN a.num = b.num
    ELSE \/ a = b
         \/ /\ a # <<>> /\ b # <<>>
            /\ Head(a) \in {IntTag, FloatTag} /\ Head(b) \in {IntTag, FloatTag}
            /\ Tail(a) = Tail(b)

\* The non-null cells of column c of the rows of frame df whose key is k
FrameValues(df, k, c) ==
    {df[i][c] : i \in {n \in 1..Len(df) : df[n].book_id = k /\ CellNotNa(df[n], c)}}

\* The non-null cells of column c of the source records whose key is k
SourceValues(k, c) == FrameValues(df_gr, k, c) \cup FrameValues(df_gb, k, c)

\* The cell of column c of the consolidated row d is null or is the cell of
\* column from of a source record of the same key
FromSource(d, c, from) ==
    IsNull(d[c], c) \/ \E v \in SourceValues(d.book_id, from) : SameValue(d[c], v, c)

\* The fields of a consolidated row that hold a single value of a source
\* record, and the normalized column each comes from
SingleValued ==
    [titulo |-> "titulo", subtitulo |-> "subtitulo", autor_principal |-> "autor",
     editorial |-> "editorial", anio_publicacion |-> "anio_publicacion",
     isbn10 |-> "isbn10", isbn13 |-> "isbn13", idioma |-> "idioma",
     paginas |-> "paginas", precio |-> "precio", moneda |-> "moneda",
     rating |-> "rating", ratings_count |-> "ratings_count"]

\* C28: every non-null title, subtitle, primary author, publisher, year, ISBN,
\* language, page count, price, currency, rating and ratings count of a
\* consolidated row is the value of that field in some source record of the
\* row's key; a key that only one source has yields values of that source only.
C28_NothingFabricated ==
    Done =>
        \A d \in Records(dim_book) :
            \A c \in DOMAIN SingleValued : FromSource(d, c, SingleValued[c])

\* C28 witness: a row of a key of both sources, with the rating of the one and
\* the price of the other, next to a row of a key that Goodreads does not
\* have, with a language and a page count and neither rating nor ratings count
C28_Witness ==
    /\ Done
    /\ \E d \in Records(dim_book) :
          /\ d.book_id \in FrameKeys(df_gr) \cap FrameKeys(df_gb)
          /\ NumNotNa(d.rating) /\ NumNotNa(d.precio) /\ NotNa(d.moneda)
    /\ \E d \in Records(dim_book) :
          /\ d.book_id \in FrameKeys(df_gb) \ FrameKeys(df_gr)
          /\ NotNa(d.idioma) /\ NumNotNa(d.paginas)
          /\ ~NumNotNa(d.rating) /\ ~NumNotNa(d.ratings_count)


\* C29: a consolidated row whose isbn13 is non-null and passes validate_isbn13
\* has that isbn13 as its book_id.
C29_ValidIsbn13IsKey ==
    \A d \in Records(dim_book) :
        (NotNa(d.isbn13) /\ validate_isbn13(d.isbn13)) => d.isbn13 = d.book_id

\* C29 witness: a consolidated row of both sources whose isbn13 passes
\* validate_isbn13, the Goodreads records of its key having an isbn10 alone
C29_Witness ==
    /\ Done
    /\ \E d \in Records(dim_book) :
          /\ NotNa(d.isbn13) /\ validate_isbn13(d.isbn13)
          /\ FrameValues(df_gr, d.book_id, "isbn10") # {}
          /\ FrameValues(df_gr, d.book_id, "isbn13") = {}
          /\ d.isbn13 \in FrameValues(df_gb, d.book_id, "isbn13")


\* The run has reached the writing of the outputs
ReachedOutput ==
    \/ pc \in {"asserted", "saved_dim_book", "saved_detail", "saved_metrics", "completed"}
    \/ pc = "failed" /\ failure \in Artifacts

\* The rows of dim_book whose key is k
BooksOfKey(k) == {i \in 1..Len(dim_book) : dim_book[i].book_id = k}

\* The rows of book_source_detail whose candidate key is k
DetailOfKey(k) ==
    {n \in 1..Len(book_source_detail) : book_source_detail[n].book_id_candidato = k}

\* C30: once a run has computed the traceability table, and so in every run
\* that reaches the writing of the outputs, every book_id_candidato of
\* book_source_detail is the book_id of exactly one row of dim_book, and every
\* book_id of dim_book is the book_id_candidato of at least one row of
\* book_source_detail.
C30_LineageComplete ==
    (Detailed \/ ReachedOutput) =>
        /\ \A n \in 1..Len(book_source_detail) :
              Cardinality(BooksOfKey(book_source_detail[n].book_id_candidato)) = 1
        /\ \A i \in 1..Len(dim_book) : DetailOfKey(dim_book[i].book_id) # {}

\* C30 witness: a run that has written its outputs, with a key of two
\* traceability rows, a key of one Goodreads row and a key of one Google Books
\* row
C30_Witness ==
    /\ ReachedOutput
    /\ "standard/dim_book.parquet" \in written
    /\ \E i \in 1..Len(dim_book) : Cardinality(DetailOfKey(dim_book[i].book_id)) = 2
    /\ \E i \in 1..Len(dim_book) :
          \E n \in 1..Len(book_source_detail) :
              /\ DetailOfKey(dim_book[i].book_id) = {n}
              /\ book_source_detail[n].source_name = <<"goodreads">>
    /\ \E i \in 1..Len(dim_book) :
          \E n \in 1..Len(book_source_detail) :
              /\ DetailOfKey(dim_book[i].book_id) = {n}
              /\ book_source_detail[n].source_name = <<"googlebooks">>

=============================================================================
